---- MODULE Spec2Model ----
(***************************************************************************)
(* Cron job scheduler service: the job store (jobs, job_executions and the *)
(* trigger on jobs), the JobRepository, the SchedulerService (timers,      *)
(* single-flight executeJob, statistics) and the JobController handlers.   *)
(*                                                                         *)
(* Instants are milliseconds since the epoch, as in a JavaScript Date.     *)
(* Date's local-time accessors are taken in UTC (the process time zone).   *)
(* Every store call is one atomic step that either takes effect or fails   *)
(* with no effect; the code between two awaits is one step.                *)
(***************************************************************************)
EXTENDS Integers, Sequences, FiniteSets, TLC

\* ------------------------------------------------------------------ bounds
MaxTicks == 4
MaxJobs == 1
MaxExecs == 2
\* handlers suspended at an await at once, and queued setImmediate callbacks
MaxRequests == 2
MaxTriggers == 1
\* HTTP requests received, and store calls that fail, in one behaviour
MaxHttp == 3
MaxFailures == 1
\* calls of start(), calls of stop(), and writes made directly in the store
MaxStarts == 2
MaxStops == 1
MaxOutOfBand == 1
\* CacheService: the size above which set evicts (1000 in the source), and the
\* milliseconds the clock advances while the cache is exercised
MaxCacheSize == 9
MaxCacheMs == 2
\* RateLimiter: the windows the clock steps through while the limiters are
\* exercised
MaxRateWindows == 1
\* base instants of calculateNextRunTime: the hours from instant 0
MaxBaseHours == 24

\* ------------------------------------------------------------- time, dates
SecondMs == 1000
MinuteMs == 60 * SecondMs
HourMs == 60 * MinuteMs
DayMs == 24 * HourMs
\* the model's clock advances in steps of half a minute
TickMs == 30 * SecondMs
istOffset == (11 * HourMs) \div 2
InvalidDate == 0 - 1

getMinutes(t) == (t \div MinuteMs) % 60
getHours(t) == (t \div HourMs) % 24
\* Date.setSeconds(0, 0)
setSeconds0(t) == t - (t % MinuteMs)
\* Date.setMinutes(m): seconds and milliseconds kept, overflow carries
setMinutes(t, m) == t - getMinutes(t) * MinuteMs + m * MinuteMs
\* Date.setMinutes(m, 0, 0)
setMinutes00(t, m) == t - (t % HourMs) + m * MinuteMs
\* Date.setHours(h): minutes, seconds and milliseconds kept
setHours(t, h) == t - getHours(t) * HourMs + h * HourMs
\* Date.setHours(h, m, 0, 0)
setHoursM00(t, h, m) == t - (t % DayMs) + h * HourMs + m * MinuteMs
\* Math.ceil(a / b) for a >= 0, b > 0
Ceil(a, b) == (a + b - 1) \div b

\* -------------------------------------------------------- cron expressions
\* A field of a 5-field expression: "*", an integer, or "*/N".
Star == [k |-> "star", n |-> 0]
Num(n) == [k |-> "num", n |-> n]
Step(n) == [k |-> "step", n |-> n]
Cron(mi, ho, da, mo, dw) == [minute |-> mi, hour |-> ho, day |-> da, month |-> mo, dayOfWeek |-> dw]
EveryMinute == Cron(Star, Star, Star, Star, Star)
EveryTwoMinutes == Cron(Step(2), Star, Star, Star, Star)
Hourly == Cron(Num(0), Star, Star, Star, Star)

FieldOk(f, lo, hi) ==
    \/ f.k = "star"
    \/ f.k = "num" /\ f.n >= lo /\ f.n <= hi
    \/ f.k = "step" /\ f.n >= 1
\* cron.validate of the timer library on the 5-field grammar
cronValidate(c) ==
    /\ FieldOk(c.minute, 0, 59)
    /\ FieldOk(c.hour, 0, 23)
    /\ FieldOk(c.day, 1, 31)
    /\ FieldOk(c.month, 1, 12)
    /\ FieldOk(c.dayOfWeek, 0, 7)

\* parseInt of a field's text: the integer, or NaN for "*" and "*/N"
IsNaN(f) == f.k # "num"

calculateNextRunTime(c, fromTime) ==
    IF ~cronValidate(c) THEN fromTime + HourMs
    ELSE
    LET istTime == fromTime + istOffset
        nextRun ==
          IF c = EveryMinute
          THEN LET z == setSeconds0(istTime) IN setMinutes(z, getMinutes(z) + 1)
          ELSE IF c.minute.k = "step"
          THEN LET z == setSeconds0(istTime)
                   nextInterval == Ceil(getMinutes(z) + 1, c.minute.n) * c.minute.n
               IN IF nextInterval >= 60
                  THEN setMinutes(setHours(z, getHours(z) + 1), nextInterval - 60)
                  ELSE setMinutes(z, nextInterval)
          ELSE IF c.minute.k # "star" /\ c.hour.k = "star"
          THEN LET z == setMinutes00(istTime, c.minute.n)
               IN IF getMinutes(istTime) >= c.minute.n
                  THEN setHours(z, getHours(z) + 1)
                  ELSE z
          ELSE IF c.minute.k # "star" /\ c.hour.k # "star" /\ c.day.k = "star" /\ c.month.k = "star"
          THEN IF IsNaN(c.hour) THEN InvalidDate
               ELSE LET z == setHoursM00(istTime, c.hour.n, c.minute.n)
                    IN IF istTime >= z THEN z + DayMs ELSE z
          ELSE LET z == setHours(istTime, getHours(istTime) + 1)
               IN setMinutes00(z, 0)
    IN IF nextRun = InvalidDate THEN InvalidDate ELSE nextRun - istOffset

\* The store's calculate_next_run(cron_expr, NOW()): the hourly and daily
\* patterns, and the default of one hour for every other text. Its weekly and
\* monthly patterns are not among the expressions of CronSet.
calculate_next_run(c, from_time) ==
    IF c = Hourly THEN from_time - (from_time % HourMs) + HourMs
    ELSE IF c = Cron(Num(0), Num(0), Star, Star, Star)
    THEN from_time - (from_time % DayMs) + DayMs
    ELSE from_time + HourMs

\* The timer library's match of an instant, in the timer's zone (UTC).
FieldMatches(f, v) ==
    \/ f.k = "star"
    \/ f.k = "num" /\ f.n = v
    \/ f.k = "step" /\ v % f.n = 0
cronMatches(c, t) ==
    /\ t % MinuteMs = 0
    /\ FieldMatches(c.minute, getMinutes(t))
    /\ FieldMatches(c.hour, getHours(t))


\* ------------------------------------------------------------------- state
JobIds == 1..MaxJobs
CronSet == {EveryMinute, EveryTwoMinutes}
MinTimeoutMs == 1000
DefaultTimeoutMs == 30000
TimeoutSet == {MinTimeoutMs, DefaultTimeoutMs}
\* the simulated executor takes Math.random() * 2000 + 500 ms
MinExecMs == 500
MaxExecMs == 2500
Null == 0 - 1
NoJob == [none |-> TRUE]
NoTask == [none |-> TRUE]
NoExec == 0
\* stop(): waitForExecutionsToComplete(30000)
WaitTimeoutMs == 30 * SecondMs

VARIABLES
    now,             \* the clock (Date.now(), the store's NOW())
    jobs,            \* table jobs: id -> row, NoJob when there is no such row
    nextJobId,       \* ids the store has handed out so far, plus one
    executions,      \* table job_executions: a set of rows
    nextExecId,
    activeTasks,     \* SchedulerService.activeTasks: id -> timer, its captured job
    executionQueue,  \* SchedulerService.executionQueue: ids of running jobs
    stats,           \* SchedulerService.stats
    invocations,     \* executeJob calls past the guard and not yet settled
    nStarted,        \* executeJob calls that passed the guard
    requests,        \* controller handlers suspended at an await
    immediates,      \* setImmediate callbacks queued by triggerJob
    output,          \* what the last step emitted: an HTTP response, the skip
                     \* log line, or the rejection of executeJob's promise
    nHttp,           \* HTTP requests received
    nFailures,       \* store calls that failed
    isRunning,       \* SchedulerService.isRunning
    syncInterval,    \* SchedulerService.syncInterval: the ticker start() kept last
    tickers,         \* live setInterval tickers of syncJobs
    passes,          \* start() and syncJobs() calls suspended at their findAll
    stopping,        \* stop() calls waiting in waitForExecutionsToComplete
    nLifecycle,      \* calls of start() and of stop() so far
    nOutOfBand,      \* writes made directly in the store
    cache,           \* CacheService.cache: key -> entry
    liveTimers,      \* node-cron's tasks created and not destroyed, per job id
    clients,         \* RateLimiter.clients of one client IP, per limiter: timestamps
    ttlTimers,       \* CacheService.ttlTimers: the timer held for each key
    timeouts         \* the TTL timers armed and not cleared

vars == <<now, jobs, nextJobId, executions, nextExecId, activeTasks, executionQueue,
          stats, invocations, nStarted, requests, immediates, output, nHttp, nFailures,
          isRunning, syncInterval, tickers, passes, stopping, nLifecycle, nOutOfBand,
          cache, liveTimers, clients, ttlTimers, timeouts>>

storeVars == <<jobs, nextJobId, executions, nextExecId>>
schedVars == <<activeTasks, executionQueue, stats, invocations, nStarted>>
httpVars == <<requests, immediates, nHttp>>
lifeVars == <<isRunning, syncInterval, tickers, passes, stopping, nLifecycle>>
\* the middleware in front of the routes
edgeVars == <<clients, ttlTimers, timeouts>>
extVars == <<lifeVars, nOutOfBand, cache, liveTimers, edgeVars>>

NoOutput == [kind |-> "none", op |-> "none", job |-> 0, status |-> 0]
Response(op, id, status) == [kind |-> "response", op |-> op, job |-> id, status |-> status]
SkipLog(id) == [kind |-> "skip", op |-> "executeJob", job |-> id, status |-> 0]
Rejection(id) == [kind |-> "reject", op |-> "executeJob", job |-> id, status |-> 0]
\* a call of start, stop or syncJobs returned (or, for start, threw)
Done(op) == [kind |-> "done", op |-> op, job |-> 0, status |-> 0]
Thrown(op) == [kind |-> "reject", op |-> op, job |-> 0, status |-> 0]

\* A store call that succeeds (ok), or fails within the budget of failures.
StoreCall(ok) ==
    IF ok THEN UNCHANGED nFailures
    ELSE nFailures < MaxFailures /\ nFailures' = nFailures + 1

\* An HTTP request is received.
Receive ==
    /\ nHttp < MaxHttp
    /\ nHttp' = nHttp + 1

\* The handler of the request received is suspended at its first await. Two
\* handlers in flight together differ in what they hold.
Suspend(r) ==
    /\ r \notin requests
    /\ requests' = requests \cup {r}

\* CacheService: keys "job:<id>" and "jobs:<options>" (one list query)
NoEntry == [none |-> TRUE]
JobKey(id) == <<"job", id>>
ListKey == <<"jobs", 0>>
CacheKeys == {JobKey(j) : j \in JobIds} \cup {ListKey}
JobTtlMs == 10 * MinuteMs
ListTtlMs == 2 * MinuteMs

\* CacheService.get: the value, or NoEntry when absent or expired (the entry's
\* TTL timer deletes it at expiresAt)
cacheGet(c, key, t) ==
    IF c[key] # NoEntry /\ t < c[key].expiresAt THEN c[key] ELSE NoEntry

\* CacheService.set
cacheSet(c, key, value, ttlMs, t) ==
    [c EXCEPT ![key] = [value |-> value, expiresAt |-> t + ttlMs]]

\* CacheService.delete
cacheDelete(c, key) == [c EXCEPT ![key] = NoEntry]

\* JobController.invalidateJobCache
invalidateJobCache(c, id) == cacheDelete(c, JobKey(id))

\* JobController.invalidateJobsCache: every key that starts with "jobs:"
invalidateJobsCache(c) == cacheDelete(c, ListKey)

\* The scheduler is constructed and not started; the cache is empty.
\* The middleware is constructed: no request has been counted.
InitEdge ==
    /\ clients = [general |-> <<>>, strict |-> <<>>]
    /\ ttlTimers = {}
    /\ timeouts = {}

InitExt ==
    /\ isRunning = FALSE
    /\ syncInterval = 0
    /\ tickers = {}
    /\ passes = {}
    /\ stopping = {}
    /\ nLifecycle = [starts |-> 0, stops |-> 0]
    /\ nOutOfBand = 0
    /\ cache = [k \in CacheKeys |-> NoEntry]
    /\ InitEdge
    /\ liveTimers = [j \in JobIds |-> 0]

Init ==
    /\ now = 0
    /\ jobs = [j \in JobIds |-> NoJob]
    /\ nextJobId = 1
    /\ executions = {}
    /\ nextExecId = 1
    /\ activeTasks = [j \in JobIds |-> NoTask]
    /\ executionQueue = {}
    /\ stats = [totalExecutions |-> 0, successfulExecutions |-> 0, failedExecutions |-> 0]
    /\ invocations = {}
    /\ nStarted = 0
    /\ requests = {}
    /\ immediates = <<>>
    /\ output = NoOutput
    /\ nHttp = 0
    /\ nFailures = 0
    /\ InitExt

\* ------------------------------------------------------------------- store
\* Trigger jobs_update_next_run, BEFORE INSERT OR UPDATE ON jobs.
update_next_run_trigger(op, old, new, t) ==
    IF op = "INSERT" \/ (op = "UPDATE" /\ old.cron # new.cron)
    THEN [new EXCEPT !.nextRunAt = calculate_next_run(new.cron, t)]
    ELSE new

\* UPDATE jobs SET ... WHERE id = $1, through the trigger; no row, no effect.
UpdateJobsRow(js, id, new, t) ==
    IF js[id] = NoJob THEN js
    ELSE [js EXCEPT ![id] = update_next_run_trigger("UPDATE", js[id], new, t)]

\* updateJobStats without the increment of failed_runs
updateJobStats_NoFailedCount(js, id, success, t) ==
    IF js[id] = NoJob THEN js
    ELSE [js EXCEPT ![id].lastRunAt = t,
                    ![id].totalRuns = @ + 1,
                    ![id].successfulRuns = @ + (IF success THEN 1 ELSE 0)]

\* JobRepository.updateJobStats
updateJobStats(js, id, success, t) ==
    IF js[id] = NoJob THEN js
    ELSE UpdateJobsRow(js, id,
            [js[id] EXCEPT !.lastRunAt = t,
                           !.totalRuns = @ + 1,
                           !.successfulRuns = @ + (IF success THEN 1 ELSE 0),
                           !.failedRuns = @ + (IF success THEN 0 ELSE 1)], t)

\* SchedulerService.createExecutionRecord: INSERT INTO job_executions
createExecutionRecord(ex, id, jobId, status, t) ==
    ex \cup {[id |-> id, jobId |-> jobId, status |-> status, startedAt |-> t,
              completedAt |-> Null, errorMessage |-> "none"]}

\* an UPDATE job_executions that matches no row
updateExecutionRecord_NoRow(ex, executionId, status, errorMessage, t) == ex

\* SchedulerService.updateExecutionRecord: UPDATE job_executions ... WHERE id = $1
updateExecutionRecord(ex, executionId, status, errorMessage, t) ==
    {IF e.id = executionId
     THEN [e EXCEPT !.status = status, !.completedAt = t, !.errorMessage = errorMessage]
     ELSE e : e \in ex}

\* DELETE FROM jobs with the rows of job_executions left in place
cascade_None(ex, id) == ex

\* job_executions.job_id REFERENCES jobs(id) ON DELETE CASCADE
cascade(ex, id) == {e \in ex : e.jobId # id}

\* The Job object a handler or a timer holds.
JobOf(id, row) == [id |-> id, cron |-> row.cron, isActive |-> row.isActive, timeoutMs |-> row.timeoutMs]

\* ---------------------------------------------------------------- scheduler
\* SchedulerService.scheduleJob: a new timer replaces the job's prior one.
scheduleJob(tasks, job, t) ==
    IF ~cronValidate(job.cron) THEN tasks
    ELSE [tasks EXCEPT ![job.id] = [job |-> job, last |-> t]]

\* SchedulerService.unscheduleJob
unscheduleJob(tasks, id) == [tasks EXCEPT ![id] = NoTask]

\* a task.destroy() that leaves the task alive
destroy_Never(n) == n

\* task.destroy(): of the n live tasks of a job, one is stopped and forgotten
destroy(n) == n - 1

\* scheduleJob, on node-cron's tasks: destroy the prior task if activeTasks
\* has one, then cron.schedule creates a task
scheduleJobTimers(live, tasks, job) ==
    IF ~cronValidate(job.cron) THEN live
    ELSE [live EXCEPT ![job.id] = (IF tasks[job.id] # NoTask THEN destroy(@) ELSE @) + 1]

\* unscheduleJob, on node-cron's tasks
unscheduleJobTimers(live, tasks, id) ==
    IF tasks[id] # NoTask THEN [live EXCEPT ![id] = destroy(@)] ELSE live

\* SchedulerService.updateServiceStats
updateServiceStats(st, success) ==
    [st EXCEPT !.totalExecutions = @ + 1,
               !.successfulExecutions = @ + (IF success THEN 1 ELSE 0),
               !.failedExecutions = @ + (IF success THEN 0 ELSE 1)]

\* executeJob without its guard
AlreadyRunning_Never(queue, id) == FALSE

\* executeJob's guard: the job is already in executionQueue.
AlreadyRunning(queue, id) == id \in queue

\* executeJob up to its first await: the guard, then executionQueue.set.
BeginExecuteJob(job) ==
    IF AlreadyRunning(executionQueue, job.id)
    THEN /\ output' = SkipLog(job.id)
         /\ UNCHANGED <<executionQueue, invocations, nStarted>>
    ELSE /\ nStarted < MaxExecs
         /\ executionQueue' = executionQueue \cup {job.id}
         /\ invocations' = invocations \cup
               {[n |-> nStarted + 1, job |-> job.id, cron |-> job.cron,
                 timeoutMs |-> job.timeoutMs, pc |-> "create",
                 executionId |-> NoExec, performAt |-> 0, error |-> "none"]}
         /\ nStarted' = nStarted + 1
         /\ output' = NoOutput

Due(j) ==
    /\ activeTasks[j] # NoTask
    /\ activeTasks[j].last < now
    /\ cronMatches(activeTasks[j].job.cron, now)

\* The timer of job j fires: its callback awaits executeJob(job).
TimerFire(j) ==
    /\ Due(j)
    /\ BeginExecuteJob(activeTasks[j].job)
    /\ activeTasks' = [activeTasks EXCEPT ![j].last = now]
    /\ UNCHANGED <<now, storeVars, stats, httpVars, nFailures>>
    /\ UNCHANGED extVars

\* Time passes. A timer fires at its instant, before the clock moves on; a
\* handler's continuation and a setImmediate callback run within the tick in
\* which they became runnable.
Tick ==
    /\ now < MaxTicks * TickMs
    /\ \A j \in JobIds : ~Due(j)
    /\ requests = {}
    /\ immediates = <<>>
    /\ \A t \in tickers : t.last = now
    /\ passes = {}
    /\ \A s \in stopping : now - s.startTime < WaitTimeoutMs /\ executionQueue # {}
    /\ now' = now + TickMs
    /\ output' = NoOutput
    /\ UNCHANGED <<storeVars, schedVars, httpVars, nFailures>>
    /\ UNCHANGED extVars

SetPc(inv, pc) == (invocations \ {inv}) \cup {[inv EXCEPT !.pc = pc]}
\* an error is thrown inside the try block: control enters the catch block
Throw(inv, kind) ==
    (invocations \ {inv}) \cup
        {[inv EXCEPT !.error = kind,
                     !.pc = IF inv.executionId # NoExec THEN "c_update" ELSE "c_stats"]}

Settle_KeepsEntry(inv, rejects) ==
    /\ invocations' = invocations \ {inv}
    /\ UNCHANGED executionQueue
    /\ output' = IF rejects THEN Rejection(inv.job) ELSE NoOutput

\* finally: executionQueue.delete(job.id); the promise settles
Settle(inv, rejects) ==
    /\ invocations' = invocations \ {inv}
    /\ executionQueue' = executionQueue \ {inv.job}
    /\ output' = IF rejects THEN Rejection(inv.job) ELSE NoOutput

\* await createExecutionRecord(job.id, "running"); the insert of a row for a
\* job that is gone violates the foreign key
CreateExecutionRecord(inv, ok) ==
    /\ inv.pc = "create"
    /\ StoreCall(ok)
    /\ IF ok /\ jobs[inv.job] # NoJob
       THEN /\ executions' = createExecutionRecord(executions, nextExecId, inv.job, "running", now)
            /\ nextExecId' = nextExecId + 1
            /\ invocations' = (invocations \ {inv}) \cup
                  {[inv EXCEPT !.executionId = nextExecId, !.performAt = now, !.pc = "perform"]}
       ELSE /\ invocations' = Throw(inv, "store")
            /\ UNCHANGED <<executions, nextExecId>>
    /\ output' = NoOutput
    /\ UNCHANGED <<now, jobs, nextJobId, activeTasks, executionQueue, stats, nStarted, httpVars>>
    /\ UNCHANGED extVars

\* The status executeJob's catch block records for an error.
CatchStatus(error) == "failed"

\* performJobExecution settles: the simulated work resolves, or the deadline
\* of job.timeoutMs || 30000 rejects with "Job execution timeout".
PerformJobExecution(inv, timesOut) ==
    /\ inv.pc = "perform"
    /\ now > inv.performAt
    /\ IF timesOut
       THEN /\ inv.timeoutMs < MaxExecMs
            /\ invocations' = Throw(inv, "timeout")
       ELSE /\ inv.timeoutMs > MinExecMs
            /\ invocations' = SetPc(inv, "complete")
    /\ output' = NoOutput
    /\ UNCHANGED <<now, storeVars, activeTasks, executionQueue, stats, nStarted, httpVars,
                   nFailures>>
    /\ UNCHANGED extVars

\* await updateExecutionRecord(executionId, "completed", ...)
CompleteRecord(inv, ok) ==
    /\ inv.pc = "complete"
    /\ StoreCall(ok)
    /\ IF ok
       THEN /\ executions' = updateExecutionRecord(executions, inv.executionId, "completed", "none", now)
            /\ invocations' = SetPc(inv, "stats")
       ELSE /\ invocations' = Throw(inv, "store")
            /\ UNCHANGED executions
    /\ output' = NoOutput
    /\ UNCHANGED <<now, jobs, nextJobId, nextExecId, activeTasks, executionQueue, stats,
                   nStarted, httpVars>>
    /\ UNCHANGED extVars

\* await jobRepository.updateJobStats(job.id, {success: true})
SuccessStats(inv, ok) ==
    /\ inv.pc = "stats"
    /\ StoreCall(ok)
    /\ IF ok
       THEN /\ jobs' = updateJobStats(jobs, inv.job, TRUE, now)
            /\ invocations' = SetPc(inv, "nextrun")
       ELSE /\ invocations' = Throw(inv, "store")
            /\ UNCHANGED jobs
    /\ output' = NoOutput
    /\ UNCHANGED <<now, nextJobId, executions, nextExecId, activeTasks, executionQueue,
                   stats, nStarted, httpVars>>
    /\ UNCHANGED extVars

\* SchedulerService.updateNextRunTime: its own try/catch swallows a store error.
updateNextRunTime(js, inv, ok, t) ==
    IF ok /\ js[inv.job] # NoJob
    THEN UpdateJobsRow(js, inv.job,
            [js[inv.job] EXCEPT !.nextRunAt = calculateNextRunTime(inv.cron, t)], t)
    ELSE js

\* await updateNextRunTime(job); updateServiceStats(duration, true); finally
NextRunAndFinish(inv, ok) ==
    /\ inv.pc = "nextrun"
    /\ StoreCall(ok)
    /\ jobs' = updateNextRunTime(jobs, inv, ok, now)
    /\ stats' = updateServiceStats(stats, TRUE)
    /\ Settle(inv, FALSE)
    /\ UNCHANGED <<now, nextJobId, executions, nextExecId, activeTasks, nStarted, httpVars>>
    /\ UNCHANGED extVars

\* catch: if (executionId) await updateExecutionRecord(executionId, "failed", ...);
\* a store error here leaves the catch block: finally runs, the promise rejects
CatchUpdateRecord(inv, ok) ==
    /\ inv.pc = "c_update"
    /\ StoreCall(ok)
    /\ IF ok
       THEN /\ executions' = updateExecutionRecord(executions, inv.executionId,
                                 CatchStatus(inv.error), inv.error, now)
            /\ invocations' = SetPc(inv, "c_stats")
            /\ output' = NoOutput
            /\ UNCHANGED executionQueue
       ELSE /\ UNCHANGED executions
            /\ Settle(inv, TRUE)
    /\ UNCHANGED <<now, jobs, nextJobId, nextExecId, activeTasks, stats, nStarted, httpVars>>
    /\ UNCHANGED extVars

\* catch: await updateJobStats(job.id, {success: false});
\* updateServiceStats(duration, false); handleJobRetry (logs only); finally
CatchStatsAndFinish(inv, ok) ==
    /\ inv.pc = "c_stats"
    /\ StoreCall(ok)
    /\ IF ok
       THEN /\ jobs' = updateJobStats(jobs, inv.job, FALSE, now)
            /\ stats' = updateServiceStats(stats, FALSE)
            /\ Settle(inv, FALSE)
       ELSE /\ UNCHANGED <<jobs, stats>>
            /\ Settle(inv, TRUE)
    /\ UNCHANGED <<now, nextJobId, executions, nextExecId, activeTasks, nStarted, httpVars>>
    /\ UNCHANGED extVars

ExecuteJobStep ==
    \E inv \in invocations :
        \/ \E ok \in BOOLEAN : CreateExecutionRecord(inv, ok)
        \/ \E timesOut \in BOOLEAN : PerformJobExecution(inv, timesOut)
        \/ \E ok \in BOOLEAN : CompleteRecord(inv, ok)
        \/ \E ok \in BOOLEAN : SuccessStats(inv, ok)
        \/ \E ok \in BOOLEAN : NextRunAndFinish(inv, ok)
        \/ \E ok \in BOOLEAN : CatchUpdateRecord(inv, ok)
        \/ \E ok \in BOOLEAN : CatchStatsAndFinish(inv, ok)

\* -------------------------------------------------------------- repository
\* JobRepository.create: INSERT INTO jobs ... RETURNING *, through the trigger.
NewJobRow(input, t) ==
    update_next_run_trigger("INSERT", NoJob,
        [cron |-> input.cron, isActive |-> input.isActive, timeoutMs |-> input.timeoutMs,
         nextRunAt |-> calculateNextRunTime(input.cron, t), lastRunAt |-> Null,
         totalRuns |-> 0, successfulRuns |-> 0, failedRuns |-> 0], t)

JobInputs == [cron : CronSet, isActive : BOOLEAN, timeoutMs : TimeoutSet]

\* A PUT body: one of the fields, named by has; the other is not sent.
PatchSet ==
    [has : {"cron"}, cron : CronSet, isActive : {TRUE}]
    \cup [has : {"isActive"}, cron : {EveryMinute}, isActive : BOOLEAN]

\* new Job({...existingJob, ...updateData})
Merge(existing, patch) ==
    [existing EXCEPT
        !.cron = IF patch.has = "cron" THEN patch.cron ELSE @,
        !.isActive = IF patch.has = "isActive" THEN patch.isActive ELSE @]

\* JobRepository.update after its findById: the row its UPDATE writes. The
\* statement sets the configuration columns and next_run_at; the counters and
\* last_run_at keep the row's current values.
UpdatedRow(current, existing, patch, t) ==
    LET merged == Merge(existing, patch)
        nextRunAt == IF existing.cron # merged.cron
                     THEN calculateNextRunTime(merged.cron, t)
                     ELSE existing.nextRunAt
    IN [current EXCEPT !.cron = merged.cron, !.isActive = merged.isActive,
                       !.timeoutMs = merged.timeoutMs, !.nextRunAt = nextRunAt]

\* new Job(result.rows[0]) when the UPDATE matched no row
EmptyJob == [id |-> 0, cron |-> EveryMinute, isActive |-> FALSE, timeoutMs |-> DefaultTimeoutMs]
NoPatch == [has |-> "none", cron |-> EveryMinute, isActive |-> FALSE]

Request(op, pc, id, existing, patch, job) ==
    [op |-> op, pc |-> pc, id |-> id, existing |-> existing, patch |-> patch, job |-> job]

\* --------------------------------------------------------------- controller
\* POST /jobs: await jobRepository.create(jobData)
CreateJobInsert(input, ok) ==
    /\ Receive
    /\ Cardinality(requests) < MaxRequests
    /\ StoreCall(ok)
    /\ IF ok
       THEN /\ nextJobId <= MaxJobs
            /\ jobs' = [jobs EXCEPT ![nextJobId] = NewJobRow(input, now)]
            /\ nextJobId' = nextJobId + 1
            /\ Suspend(Request("create", "respond", nextJobId, NoJob, NoPatch,
                           JobOf(nextJobId, NewJobRow(input, now))))
            /\ output' = NoOutput
       ELSE /\ output' = Response("create", 0, 500)
            /\ UNCHANGED <<jobs, nextJobId, requests>>
    /\ UNCHANGED <<now, executions, nextExecId, schedVars, immediates>>
    /\ UNCHANGED extVars

\* requestTimeout has answered the request 408 while its handler was suspended
TimedOut(r) == "timedOut" \in DOMAIN r

\* res.json of a handler: the response, unless the headers are sent already
\* (the 408 of requestTimeout): then res.json throws, the catch block's
\* res.status(500).json throws again and the handler's promise rejects
Answer(r, response) == IF TimedOut(r) THEN Thrown(r.op) ELSE response

\* POST /jobs, after the insert: scheduleJob if active, then 201
CreateJobRespond(r) ==
    /\ r.op = "create" /\ r.pc = "respond"
    /\ activeTasks' = IF r.job.isActive THEN scheduleJob(activeTasks, r.job, now) ELSE activeTasks
    /\ UNCHANGED edgeVars
    /\ liveTimers' = IF r.job.isActive THEN scheduleJobTimers(liveTimers, activeTasks, r.job)
                     ELSE liveTimers
    /\ requests' = requests \ {r}
    /\ output' = Answer(r, Response("create", r.id, 201))
    /\ UNCHANGED <<now, storeVars, executionQueue, stats, invocations, nStarted,
                   immediates, nHttp, nFailures>>
    /\ cache' = invalidateJobsCache(cache)
    /\ UNCHANGED <<lifeVars, nOutOfBand>>

\* PUT /jobs/:id: JobRepository.update's await findById(id)
UpdateJobRead(id, patch, ok) ==
    /\ Receive
    /\ Cardinality(requests) < MaxRequests
    /\ StoreCall(ok)
    /\ IF ~ok
       THEN /\ output' = Response("update", id, 500)
            /\ UNCHANGED requests
       ELSE IF jobs[id] = NoJob
       THEN /\ output' = Response("update", id, 404)
            /\ UNCHANGED requests
       ELSE /\ Suspend(Request("update", "write", id, jobs[id], patch, EmptyJob))
            /\ output' = NoOutput
    /\ UNCHANGED <<now, storeVars, schedVars, immediates>>
    /\ UNCHANGED extVars

\* PUT /jobs/:id: JobRepository.update's UPDATE jobs ... RETURNING *
UpdateJobWrite(r, ok) ==
    /\ r.op = "update" /\ r.pc = "write"
    /\ StoreCall(ok)
    /\ IF ~ok
       THEN /\ output' = Answer(r, Response("update", r.id, 500))
            /\ requests' = requests \ {r}
            /\ UNCHANGED jobs
       ELSE /\ jobs' = UpdateJobsRow(jobs, r.id, UpdatedRow(jobs[r.id], r.existing, r.patch, now), now)
            /\ requests' = (requests \ {r}) \cup
                  {[r EXCEPT !.pc = "respond",
                             !.job = IF jobs[r.id] = NoJob THEN EmptyJob
                                     ELSE JobOf(r.id, jobs'[r.id])]}
            /\ output' = NoOutput
    /\ UNCHANGED <<now, nextJobId, executions, nextExecId, schedVars, immediates, nHttp>>
    /\ UNCHANGED extVars

\* PUT /jobs/:id, after the update: scheduleJob or unscheduleJob, then 200
UpdateJobRespond(r) ==
    /\ r.op = "update" /\ r.pc = "respond"
    /\ activeTasks' = IF r.job.isActive THEN scheduleJob(activeTasks, r.job, now)
                      ELSE unscheduleJob(activeTasks, r.id)
    /\ UNCHANGED edgeVars
    /\ liveTimers' = IF r.job.isActive THEN scheduleJobTimers(liveTimers, activeTasks, r.job)
                     ELSE unscheduleJobTimers(liveTimers, activeTasks, r.id)
    /\ requests' = requests \ {r}
    /\ output' = Answer(r, Response("update", r.id, 200))
    /\ UNCHANGED <<now, storeVars, executionQueue, stats, invocations, nStarted,
                   immediates, nHttp, nFailures>>
    /\ cache' = invalidateJobsCache(invalidateJobCache(cache, r.id))
    /\ UNCHANGED <<lifeVars, nOutOfBand>>

\* DELETE /jobs/:id: DELETE FROM jobs ... RETURNING *, executions cascade
DeleteJobRow(id, ok) ==
    /\ Receive
    /\ Cardinality(requests) < MaxRequests
    /\ StoreCall(ok)
    /\ IF ~ok
       THEN /\ output' = Response("delete", id, 500)
            /\ UNCHANGED <<jobs, executions, requests>>
       ELSE IF jobs[id] = NoJob
       THEN /\ output' = Response("delete", id, 404)
            /\ UNCHANGED <<jobs, executions, requests>>
       ELSE /\ jobs' = [jobs EXCEPT ![id] = NoJob]
            /\ executions' = cascade(executions, id)
            /\ Suspend(Request("delete", "respond", id, NoJob, NoPatch, JobOf(id, jobs[id])))
            /\ output' = NoOutput
    /\ UNCHANGED <<now, nextJobId, nextExecId, schedVars, immediates>>
    /\ UNCHANGED extVars

\* DELETE /jobs/:id, after the delete: unscheduleJob, then 200
DeleteJobRespond(r) ==
    /\ r.op = "delete" /\ r.pc = "respond"
    /\ activeTasks' = unscheduleJob(activeTasks, r.id)
    /\ UNCHANGED edgeVars
    /\ liveTimers' = unscheduleJobTimers(liveTimers, activeTasks, r.id)
    /\ requests' = requests \ {r}
    /\ output' = Answer(r, Response("delete", r.id, 200))
    /\ UNCHANGED <<now, storeVars, executionQueue, stats, invocations, nStarted,
                   immediates, nHttp, nFailures>>
    /\ cache' = invalidateJobsCache(invalidateJobCache(cache, r.id))
    /\ UNCHANGED <<lifeVars, nOutOfBand>>

\* POST /jobs/:id/trigger: findById, setImmediate(executeJob), 200. What follows
\* the await reads no shared state, so the handler is one step.
TriggerJob(id, ok) ==
    /\ Receive
    /\ StoreCall(ok)
    /\ IF ~ok
       THEN /\ output' = Response("trigger", id, 500)
            /\ UNCHANGED immediates
       ELSE IF jobs[id] = NoJob
       THEN /\ output' = Response("trigger", id, 404)
            /\ UNCHANGED immediates
       ELSE /\ Len(immediates) < MaxTriggers
            /\ immediates' = Append(immediates, JobOf(id, jobs[id]))
            /\ output' = Response("trigger", id, 200)
    /\ UNCHANGED <<now, storeVars, schedVars, requests>>
    /\ UNCHANGED extVars

\* The setImmediate callback of a trigger runs: executeJob(job).
RunImmediate ==
    /\ immediates # <<>>
    /\ BeginExecuteJob(Head(immediates))
    /\ immediates' = Tail(immediates)
    /\ UNCHANGED <<now, storeVars, activeTasks, stats, requests, nHttp, nFailures>>
    /\ UNCHANGED extVars

Next ==
    \/ Tick
    \/ \E j \in JobIds : TimerFire(j)
    \/ ExecuteJobStep
    \/ \E input \in JobInputs, ok \in BOOLEAN : CreateJobInsert(input, ok)
    \/ \E r \in requests : CreateJobRespond(r)
    \/ \E id \in JobIds, patch \in PatchSet, ok \in BOOLEAN : UpdateJobRead(id, patch, ok)
    \/ \E r \in requests, ok \in BOOLEAN : UpdateJobWrite(r, ok)
    \/ \E r \in requests : UpdateJobRespond(r)
    \/ \E id \in JobIds, ok \in BOOLEAN : DeleteJobRow(id, ok)
    \/ \E r \in requests : DeleteJobRespond(r)
    \/ \E id \in JobIds, ok \in BOOLEAN : TriggerJob(id, ok)
    \/ RunImmediate

Spec == Init /\ [][Next]_vars


\* ---------------------------------------------------------------- lifecycle
\* The option isActive of findAll
Undefined == [given |-> FALSE, value |-> FALSE]
Only(b) == [given |-> TRUE, value |-> b]

\* findAll without its is_active condition
findAll_NoFilter(js, isActive) ==
    [j \in JobIds |-> IF js[j] # NoJob THEN JobOf(j, js[j]) ELSE NoJob]

\* JobRepository.findAll({isActive, limit}): the page of Job objects, NoJob for
\* an id that is not in it; the option isActive is given or undefined
findAll(js, isActive) ==
    [j \in JobIds |->
        IF js[j] # NoJob /\ (~isActive.given \/ js[j].isActive = isActive.value)
        THEN JobOf(j, js[j]) ELSE NoJob]

\* JobRepository.getActiveJobs: is_active AND (next_run_at IS NULL OR <= NOW())
getActiveJobs(js, t) ==
    [j \in JobIds |->
        IF js[j] # NoJob /\ js[j].isActive /\ js[j].nextRunAt <= t
        THEN JobOf(j, js[j]) ELSE NoJob]

\* start() with no test of isRunning
AlreadyStarted_Never(running) == FALSE

\* start(): if (this.isRunning) return
AlreadyStarted(running) == running

LifePass(kind, n, result, ok) ==
    [kind |-> kind, n |-> n, result |-> result, ok |-> ok, stale |-> FALSE]

\* start() up to the await of loadAndScheduleJobs' findAll
StartCall(ok) ==
    /\ nLifecycle.starts < MaxStarts
    /\ nLifecycle' = [nLifecycle EXCEPT !.starts = @ + 1]
    /\ IF AlreadyStarted(isRunning)
       THEN /\ ok
            /\ output' = Done("start")
            /\ UNCHANGED <<isRunning, passes, nFailures>>
       ELSE /\ StoreCall(ok)
            /\ isRunning' = TRUE
            /\ passes' = passes \cup
                  {LifePass("start", nLifecycle.starts + 1, findAll(jobs, Only(TRUE)), ok)}
            /\ output' = NoOutput
    /\ UNCHANGED <<now, storeVars, activeTasks, executionQueue, stats, invocations, nStarted,
                   httpVars, syncInterval, tickers, stopping, nOutOfBand, cache, liveTimers, edgeVars>>

\* loadAndScheduleJobs: scheduleJob for every job of the page
loadAndScheduleJobs(tasks, result, t) ==
    [j \in JobIds |->
        IF result[j] # NoJob THEN scheduleJob(tasks, result[j], t)[j] ELSE tasks[j]]

loadAndScheduleJobsTimers(live, tasks, result) ==
    [j \in JobIds |->
        IF result[j] # NoJob THEN scheduleJobTimers(live, tasks, result[j])[j] ELSE live[j]]

\* start() after the await: schedule the page and set the sync ticker; when
\* the load failed, isRunning = false and the error is thrown
StartContinue(p) ==
    /\ p.kind = "start"
    /\ passes' = passes \ {p}
    /\ IF p.ok
       THEN /\ activeTasks' = loadAndScheduleJobs(activeTasks, p.result, now)
            /\ UNCHANGED edgeVars
            /\ liveTimers' = loadAndScheduleJobsTimers(liveTimers, activeTasks, p.result)
            /\ syncInterval' = p.n
            /\ tickers' = tickers \cup {[id |-> p.n, last |-> now]}
            /\ output' = Done("start")
            /\ UNCHANGED isRunning
       ELSE /\ isRunning' = FALSE
            /\ output' = Thrown("start")
            /\ UNCHANGED <<activeTasks, liveTimers, edgeVars, syncInterval, tickers>>
    /\ UNCHANGED <<now, storeVars, executionQueue, stats, invocations, nStarted, httpVars,
                   nFailures, stopping, nLifecycle, nOutOfBand, cache>>

\* stop() up to its await: isRunning = false, clearInterval(syncInterval),
\* destroy and clear every timer. The start and sync calls suspended at their
\* store read are marked: they were in flight when stop() was called.
StopCall ==
    /\ nLifecycle.stops < MaxStops
    /\ nLifecycle' = [nLifecycle EXCEPT !.stops = @ + 1]
    /\ IF ~isRunning
       THEN /\ output' = Done("stop")
            /\ UNCHANGED <<isRunning, tickers, activeTasks, liveTimers, edgeVars, passes, stopping>>
       ELSE /\ isRunning' = FALSE
            /\ tickers' = {t \in tickers : t.id # syncInterval}
            /\ activeTasks' = [j \in JobIds |-> NoTask]
            /\ UNCHANGED edgeVars
            /\ liveTimers' = [j \in JobIds |-> IF activeTasks[j] # NoTask
                                                THEN destroy(liveTimers[j]) ELSE liveTimers[j]]
            /\ passes' = {[p EXCEPT !.stale = TRUE] : p \in passes}
            /\ stopping' = stopping \cup {[n |-> nLifecycle.stops + 1, startTime |-> now]}
            /\ output' = NoOutput
    /\ UNCHANGED <<now, storeVars, executionQueue, stats, invocations, nStarted, httpVars,
                   nFailures, syncInterval, nOutOfBand, cache>>

Drained_Always(s) == TRUE

\* waitForExecutionsToComplete leaves its loop
Drained(s) == executionQueue = {} \/ now - s.startTime >= WaitTimeoutMs

\* stop() returns
StopReturn(s) ==
    /\ Drained(s)
    /\ stopping' = stopping \ {s}
    /\ output' = Done("stop")
    /\ UNCHANGED <<now, storeVars, schedVars, httpVars, nFailures, isRunning, syncInterval,
                   tickers, passes, nLifecycle, nOutOfBand, cache, liveTimers, edgeVars>>

\* A sync ticker is due: 30 s after it last fired.
TickerDue(t) == t.last < now

\* A sync ticker fires: syncJobs() up to the await of its findAll; a store
\* error is caught and logged
SyncFire(t, ok) ==
    /\ TickerDue(t)
    /\ tickers' = (tickers \ {t}) \cup {[t EXCEPT !.last = now]}
    /\ IF ~isRunning
       THEN /\ ok
            /\ UNCHANGED <<passes, nFailures>>
       ELSE /\ StoreCall(ok)
            /\ passes' = IF ok THEN passes \cup {LifePass("sync", t.id, findAll(jobs, Only(TRUE)), ok)}
                          ELSE passes
    /\ output' = NoOutput
    /\ UNCHANGED <<now, storeVars, schedVars, httpVars, isRunning, syncInterval, stopping,
                   nLifecycle, nOutOfBand, cache, liveTimers, edgeVars>>

\* syncJobs after the await: schedule the jobs of the page that have no timer,
\* unschedule the timers whose job is not in the page
syncJobs(tasks, result, t) ==
    [j \in JobIds |->
        IF result[j] = NoJob THEN NoTask
        ELSE IF tasks[j] = NoTask THEN scheduleJob(tasks, result[j], t)[j]
        ELSE tasks[j]]

syncJobsTimers(live, tasks, result) ==
    [j \in JobIds |->
        IF result[j] = NoJob THEN unscheduleJobTimers(live, tasks, j)[j]
        ELSE IF tasks[j] = NoTask THEN scheduleJobTimers(live, tasks, result[j])[j]
        ELSE live[j]]

SyncApply(p) ==
    /\ p.kind = "sync"
    /\ passes' = passes \ {p}
    /\ activeTasks' = syncJobs(activeTasks, p.result, now)
    /\ UNCHANGED edgeVars
    /\ liveTimers' = syncJobsTimers(liveTimers, activeTasks, p.result)
    /\ output' = Done("syncJobs")
    /\ UNCHANGED <<now, storeVars, executionQueue, stats, invocations, nStarted, httpVars,
                   nFailures, isRunning, syncInterval, tickers, stopping, nLifecycle,
                   nOutOfBand, cache>>

\* A second writer changes a job's row directly in the store.
OutOfBandUpdate(id, patch) ==
    /\ nOutOfBand < MaxOutOfBand
    /\ jobs[id] # NoJob
    /\ Merge(jobs[id], patch) # jobs[id]
    /\ nOutOfBand' = nOutOfBand + 1
    /\ jobs' = UpdateJobsRow(jobs, id, Merge(jobs[id], patch), now)
    /\ output' = NoOutput
    /\ UNCHANGED <<now, nextJobId, executions, nextExecId, schedVars, httpVars, nFailures,
                   lifeVars, cache, liveTimers, edgeVars>>

NextSync ==
    \/ Tick
    \/ \E id \in JobIds, patch \in PatchSet, ok \in BOOLEAN : UpdateJobRead(id, patch, ok)
    \/ \E r \in requests, ok \in BOOLEAN : UpdateJobWrite(r, ok)
    \/ \E r \in requests : UpdateJobRespond(r)
    \/ \E id \in JobIds, ok \in BOOLEAN : DeleteJobRow(id, ok)
    \/ \E r \in requests : DeleteJobRespond(r)
    \/ \E ok \in BOOLEAN : StartCall(ok)
    \/ \E p \in passes : StartContinue(p)
    \/ StopCall
    \/ \E s \in stopping : StopReturn(s)
    \/ \E t \in tickers, ok \in BOOLEAN : SyncFire(t, ok)
    \/ \E p \in passes : SyncApply(p)
    \/ \E id \in JobIds, patch \in PatchSet : OutOfBandUpdate(id, patch)

\* The process has booted on a store that holds the jobs created earlier (at
\* instant 0); the scheduler is constructed and not started. The store's
\* calls all succeed and one HTTP request is received.
InitSync ==
    /\ now = 0
    /\ jobs \in [JobIds -> {NewJobRow(input, 0) :
                              input \in [cron : CronSet, isActive : BOOLEAN,
                                         timeoutMs : {DefaultTimeoutMs}]}]
    /\ nextJobId = MaxJobs + 1
    /\ executions = {}
    /\ nextExecId = 1
    /\ activeTasks = [j \in JobIds |-> NoTask]
    /\ executionQueue = {}
    /\ stats = [totalExecutions |-> 0, successfulExecutions |-> 0, failedExecutions |-> 0]
    /\ invocations = {}
    /\ nStarted = 0
    /\ requests = {}
    /\ immediates = <<>>
    /\ output = NoOutput
    /\ nHttp = MaxHttp - 1
    /\ nFailures = MaxFailures
    /\ InitExt

\* The scheduler with its lifecycle and sync passes, the mutating handlers and
\* a second writer on the store.
SpecSync == InitSync /\ [][NextSync]_vars

\* ------------------------------------------------------------ cached reads
\* new Job(row): the object findById and findAll return. A Job has no
\* property statistics (Null stands for undefined).
NewJob(id, row) ==
    [id |-> id, cron |-> row.cron, isActive |-> row.isActive, timeoutMs |-> row.timeoutMs,
     lastRunAt |-> row.lastRunAt, nextRunAt |-> row.nextRunAt, totalRuns |-> row.totalRuns,
     successfulRuns |-> row.successfulRuns, failedRuns |-> row.failedRuns,
     statistics |-> Null]

\* Job.toJSON: statistics is built from the object's counters; successRate is
\* (successfulRuns / totalRuns * 100).toFixed(2), here in hundredths
toJSON(job) ==
    [id |-> job.id, cronExpression |-> job.cron, isActive |-> job.isActive,
     lastRunAt |-> job.lastRunAt, nextRunAt |-> job.nextRunAt,
     statistics |->
        [totalRuns |-> job.totalRuns, successfulRuns |-> job.successfulRuns,
         failedRuns |-> job.failedRuns,
         successRate |-> IF job.totalRuns > 0
                         THEN (2 * job.successfulRuns * 10000 + job.totalRuns)
                                  \div (2 * job.totalRuns)
                         ELSE 0],
     configuration |-> [timeoutMs |-> job.timeoutMs]]

\* JobRepository.findById: a Job, or null
findById(js, id) == IF js[id] = NoJob THEN NoJob ELSE NewJob(id, js[id])

\* findAll(options).jobs of GET /jobs with no filter, as Job objects
ListPage(js) ==
    [j \in JobIds |-> IF findAll(js, Undefined)[j] # NoJob THEN NewJob(j, js[j]) ELSE NoJob]

\* getAllJobs: the assignments to a job of the page, given its freshJob
overlay(job, freshJob) ==
    IF job.isActive /\ freshJob # NoJob
    THEN [job EXCEPT !.lastRunAt = freshJob.lastRunAt,
                     !.nextRunAt = freshJob.nextRunAt,
                     !.statistics = freshJob.statistics]
    ELSE job

\* The query string of GET /jobs: fresh=true or no fresh. The other
\* parameters are not sent, so that there is one list key.
Queries == [fresh : {"true", "absent"}]

\* schema.validate(data, {stripUnknown: true}): jobQuerySchema has no key fresh
stripUnknown(q) == [q EXCEPT !.fresh = "absent"]

\* validateJobQuery: req.query = value. Whether the handler then reads value
\* or the parsed query string depends on req.query being a plain property
\* (assigned) or a getter of the framework's request prototype.
validateJobQuery(q, assigned) == IF assigned THEN stripUnknown(q) ELSE q

\* getAllJobs: bypassCache = req.query.fresh === "true"
bypassCache(query) == query.fresh = "true"

\* CacheService.get deletes an expired entry
cacheAfterGet(c, key, t) == [c EXCEPT ![key] = cacheGet(c, key, t)]

\* A read handler suspended at an await: the request's query string as sent,
\* the object it holds, and whether that object came from the cache
ReadRequest(op, pc, id, result, query, cached) ==
    [op |-> op, pc |-> pc, id |-> id, result |-> result, query |-> query, cached |-> cached]

NoQuery == [fresh |-> "absent"]

DataResponse(op, id, status, data) ==
    [kind |-> "response", op |-> op, job |-> id, status |-> status, data |-> data]

\* GET /jobs/:id: cache.get, on a miss await findById; on a hit the handler
\* goes on to await the execution history
GetJobBegin(id, ok) ==
    /\ Receive
    /\ Cardinality(requests) < MaxRequests
    /\ LET hit == cacheGet(cache, JobKey(id), now) IN
       IF hit # NoEntry
       THEN /\ ok
            /\ Suspend(ReadRequest("get", "respond", id, hit.value, NoQuery, TRUE))
            /\ output' = NoOutput
            /\ UNCHANGED nFailures
       ELSE /\ StoreCall(ok)
            /\ IF ok
               THEN /\ Suspend(ReadRequest("get", "cache", id, findById(jobs, id), NoQuery, FALSE))
                    /\ output' = NoOutput
               ELSE /\ output' = Response("get", id, 500)
                    /\ UNCHANGED requests
    /\ cache' = cacheAfterGet(cache, JobKey(id), now)
    /\ UNCHANGED <<now, storeVars, schedVars, immediates, lifeVars, nOutOfBand, liveTimers, edgeVars>>

\* GET /jobs/:id after findById: cache.set for 10 minutes and await the
\* execution history, or 404
GetJobCache(r) ==
    /\ r.op = "get" /\ r.pc = "cache"
    /\ IF r.result # NoJob
       THEN /\ cache' = cacheSet(cache, JobKey(r.id), r.result, JobTtlMs, now)
            /\ requests' = (requests \ {r}) \cup {[r EXCEPT !.pc = "respond"]}
            /\ output' = NoOutput
       ELSE /\ requests' = requests \ {r}
            /\ output' = Response("get", r.id, 404)
            /\ UNCHANGED cache
    /\ UNCHANGED <<now, storeVars, schedVars, immediates, nHttp, nFailures, lifeVars,
                   nOutOfBand, liveTimers, edgeVars>>

\* GET /jobs/:id after the execution history: res.json({job: job.toJSON(), ...})
GetJobRespond(r, ok) ==
    /\ r.op = "get" /\ r.pc = "respond"
    /\ StoreCall(ok)
    /\ requests' = requests \ {r}
    /\ output' = IF ok THEN DataResponse("get", r.id, 200, toJSON(r.result))
                 ELSE Response("get", r.id, 500)
    /\ UNCHANGED <<now, storeVars, schedVars, immediates, nHttp, extVars>>

\* GET /jobs through sanitizeRequest and validateJobQuery, then getAllJobs up
\* to its first await: cache.get unless bypassCache, on a miss await findAll;
\* on a hit the handler goes on to await the findById calls
ListBegin(q, assigned, ok) ==
    /\ Receive
    /\ Cardinality(requests) < MaxRequests
    /\ LET query == validateJobQuery(q, assigned)
           hit == IF bypassCache(query) THEN NoEntry ELSE cacheGet(cache, ListKey, now)
       IN /\ IF hit # NoEntry
             THEN /\ ok
                  /\ Suspend(ReadRequest("list", "overlay", 0, hit.value, q, TRUE))
                  /\ output' = NoOutput
                  /\ UNCHANGED nFailures
             ELSE /\ StoreCall(ok)
                  /\ IF ok
                     THEN /\ Suspend(ReadRequest("list", "cache", 0,
                                             [oid |-> nHttp + 1, jobs |-> ListPage(jobs)],
                                             q, FALSE))
                          /\ output' = NoOutput
                     ELSE /\ output' = Response("list", 0, 500)
                          /\ UNCHANGED requests
          /\ cache' = IF bypassCache(query) THEN cache ELSE cacheAfterGet(cache, ListKey, now)
    /\ UNCHANGED <<now, storeVars, schedVars, immediates, lifeVars, nOutOfBand, liveTimers, edgeVars>>

\* GET /jobs after findAll: cache.set for 2 minutes, then await the findById
\* calls
ListCache(r) ==
    /\ r.op = "list" /\ r.pc = "cache"
    /\ cache' = cacheSet(cache, ListKey, r.result, ListTtlMs, now)
    /\ requests' = (requests \ {r}) \cup {[r EXCEPT !.pc = "overlay"]}
    /\ output' = NoOutput
    /\ UNCHANGED <<now, storeVars, schedVars, immediates, nHttp, nFailures, lifeVars,
                   nOutOfBand, liveTimers, edgeVars>>

\* The result object r holds after the assignments of the overlay
Overlaid(r) ==
    [r.result EXCEPT !.jobs =
        [j \in JobIds |-> IF r.result.jobs[j] # NoJob
                          THEN overlay(r.result.jobs[j], findById(jobs, j)) ELSE NoJob]]

\* The same object, wherever it is held
SameObject(value, result) == IF value.oid = result.oid THEN result ELSE value

\* GET /jobs after the findById calls: the jobs of the page are assigned to in
\* place (the cache and another handler may hold the same object), then
\* res.json with job.toJSON() of each
ListOverlay(r, ok) ==
    /\ r.op = "list" /\ r.pc = "overlay"
    /\ StoreCall(ok)
    /\ IF ok
       THEN /\ requests' = {IF q.op = "list"
                             THEN [q EXCEPT !.result = SameObject(@, Overlaid(r))]
                             ELSE q : q \in requests \ {r}}
            /\ cache' = IF cache[ListKey] # NoEntry
                        THEN [cache EXCEPT ![ListKey].value = SameObject(@, Overlaid(r))]
                        ELSE cache
            /\ output' = DataResponse("list", 0, 200,
                            [j \in JobIds |-> IF Overlaid(r).jobs[j] # NoJob
                                              THEN toJSON(Overlaid(r).jobs[j]) ELSE NoJob])
       ELSE /\ requests' = requests \ {r}
            /\ output' = Response("list", 0, 500)
            /\ UNCHANGED cache
    /\ UNCHANGED <<now, storeVars, schedVars, immediates, nHttp, lifeVars, nOutOfBand, liveTimers, edgeVars>>

NextCache ==
    \/ Tick
    \/ \E j \in JobIds : TimerFire(j)
    \/ ExecuteJobStep
    \/ \E id \in JobIds, patch \in PatchSet, ok \in BOOLEAN : UpdateJobRead(id, patch, ok)
    \/ \E r \in requests, ok \in BOOLEAN : UpdateJobWrite(r, ok)
    \/ \E r \in requests : UpdateJobRespond(r)
    \/ \E id \in JobIds, ok \in BOOLEAN : DeleteJobRow(id, ok)
    \/ \E r \in requests : DeleteJobRespond(r)
    \/ \E id \in JobIds, ok \in BOOLEAN : TriggerJob(id, ok)
    \/ RunImmediate
    \/ \E id \in JobIds, ok \in BOOLEAN : GetJobBegin(id, ok)
    \/ \E r \in requests : GetJobCache(r)
    \/ \E r \in requests, ok \in BOOLEAN : GetJobRespond(r, ok)
    \/ \E q \in Queries, assigned, ok \in BOOLEAN : ListBegin(q, assigned, ok)
    \/ \E r \in requests : ListCache(r)
    \/ \E r \in requests, ok \in BOOLEAN : ListOverlay(r, ok)

\* The process has booted on a store that holds an active job created earlier
\* (at instant 0); the cache is empty and the store's calls all succeed.
InitCache ==
    /\ now = 0
    /\ jobs = [j \in JobIds |->
                 NewJobRow([cron |-> EveryMinute, isActive |-> TRUE,
                            timeoutMs |-> DefaultTimeoutMs], 0)]
    /\ nextJobId = MaxJobs + 1
    /\ executions = {}
    /\ nextExecId = 1
    /\ activeTasks = [j \in JobIds |-> NoTask]
    /\ executionQueue = {}
    /\ stats = [totalExecutions |-> 0, successfulExecutions |-> 0, failedExecutions |-> 0]
    /\ invocations = {}
    /\ nStarted = 0
    /\ requests = {}
    /\ immediates = <<>>
    /\ output = NoOutput
    /\ nHttp = 0
    /\ nFailures = MaxFailures
    /\ InitExt

\* The controller's cached reads with the mutating handlers, the triggers and
\* the executions.
SpecCache == InitCache /\ [][NextCache]_vars

\* ---------------------------------------------- scheduler with executions
NextFrame ==
    \/ Tick
    \/ \E j \in JobIds : TimerFire(j)
    \/ ExecuteJobStep
    \/ \E id \in JobIds, patch \in PatchSet, ok \in BOOLEAN : UpdateJobRead(id, patch, ok)
    \/ \E r \in requests, ok \in BOOLEAN : UpdateJobWrite(r, ok)
    \/ \E r \in requests : UpdateJobRespond(r)
    \/ \E id \in JobIds, ok \in BOOLEAN : DeleteJobRow(id, ok)
    \/ \E r \in requests : DeleteJobRespond(r)
    \/ \E ok \in BOOLEAN : StartCall(ok)
    \/ \E p \in passes : StartContinue(p)
    \/ StopCall
    \/ \E s \in stopping : StopReturn(s)
    \/ \E t \in tickers, ok \in BOOLEAN : SyncFire(t, ok)
    \/ \E p \in passes : SyncApply(p)

\* The process has booted on a store that holds an active every-minute job
\* created earlier (at instant 0); the scheduler is constructed and not
\* started. The store's calls all succeed, one HTTP request is received and
\* nothing else writes the store.
InitFrame ==
    /\ now = 0
    /\ jobs = [j \in JobIds |->
                 NewJobRow([cron |-> EveryMinute, isActive |-> TRUE,
                            timeoutMs |-> DefaultTimeoutMs], 0)]
    /\ nextJobId = MaxJobs + 1
    /\ executions = {}
    /\ nextExecId = 1
    /\ activeTasks = [j \in JobIds |-> NoTask]
    /\ executionQueue = {}
    /\ stats = [totalExecutions |-> 0, successfulExecutions |-> 0, failedExecutions |-> 0]
    /\ invocations = {}
    /\ nStarted = 0
    /\ requests = {}
    /\ immediates = <<>>
    /\ output = NoOutput
    /\ nHttp = MaxHttp - 1
    /\ nFailures = MaxFailures
    /\ isRunning = FALSE
    /\ syncInterval = 0
    /\ tickers = {}
    /\ passes = {}
    /\ stopping = {}
    /\ nLifecycle = [starts |-> 0, stops |-> 0]
    /\ nOutOfBand = MaxOutOfBand
    /\ cache = [k \in CacheKeys |-> NoEntry]
    /\ InitEdge
    /\ liveTimers = [j \in JobIds |-> 0]

\* The scheduler's timers and executions with start, stop, the sync passes and
\* the PUT and DELETE handlers.
SpecFrame == InitFrame /\ [][NextFrame]_vars

\* ------------------------------------------------- calculateNextRunTime
Weekly == Cron(Num(0), Num(0), Star, Star, Num(1))
Monthly == Cron(Num(0), Num(0), Num(1), Star, Star)
EveryTwoHours == Cron(Num(0), Step(2), Star, Star, Star)

\* The minutes and hours the base instants and the expressions are taken from.
BaseMinutes == {0, 30, 59}
CronHours == {0, 5, 9, 23}

\* fromTime: instants of the first days of January 1970 (UTC), on and off the
\* minute
BaseInstants ==
    {h * HourMs + m * MinuteMs + s * TickMs :
        h \in 0..MaxBaseHours, m \in BaseMinutes, s \in {0, 1}}

StepExprs == {Cron(Step(n), Star, Star, Star, Star) : n \in 1..59}
MinuteExprs == {Cron(Num(m), Star, Star, Star, Star) : m \in BaseMinutes}
DailyExprs == {Cron(Num(m), Num(h), Star, Star, Star) : m \in BaseMinutes, h \in CronHours}

\* cronExpression: expressions cron.validate accepts
CronExprs ==
    {EveryMinute, Weekly, Monthly, EveryTwoHours} \cup StepExprs \cup MinuteExprs
        \cup DailyExprs

\* The time zone of the process, as its offset from UTC: nothing in the
\* repository sets it, the host does (UTC, or Asia/Kolkata).
HostZones == {0, istOffset}

\* Date's getMinutes, getHours, setSeconds, setMinutes, setHours and setDate
\* read and write the wall clock of the process's time zone, tz ahead of UTC:
\* each is the UTC operation on the instant shifted by tz, shifted back.
calculateNextRunTimeIn(tz, c, fromTime) ==
    LET r == calculateNextRunTime(c, fromTime + tz)
    IN IF r = InvalidDate THEN InvalidDate ELSE r - tz

Returned(op, tz, expr, from, value) ==
    [kind |-> "return", op |-> op, tz |-> tz, expr |-> expr, from |-> from,
     value |-> value]

\* calculateNextRunTime(cronExpression, fromTime) is called in a process of
\* time zone tz and returns.
CalculateNextRunTime(tz, c) ==
    /\ output' = Returned("calculateNextRunTime", tz, c, now,
                          calculateNextRunTimeIn(tz, c, now))
    /\ UNCHANGED <<now, storeVars, schedVars, httpVars, nFailures, extVars>>

NextCron == \E tz \in HostZones, c \in CronExprs : CalculateNextRunTime(tz, c)

\* The module is loaded; the clock reads one of the base instants.
InitCron ==
    /\ now \in BaseInstants
    /\ jobs = [j \in JobIds |-> NoJob]
    /\ nextJobId = 1
    /\ executions = {}
    /\ nextExecId = 1
    /\ activeTasks = [j \in JobIds |-> NoTask]
    /\ executionQueue = {}
    /\ stats = [totalExecutions |-> 0, successfulExecutions |-> 0, failedExecutions |-> 0]
    /\ invocations = {}
    /\ nStarted = 0
    /\ requests = {}
    /\ immediates = <<>>
    /\ output = NoOutput
    /\ nHttp = 0
    /\ nFailures = 0
    /\ InitExt

\* calculateNextRunTime applied to every expression at every base instant.
SpecCron == InitCron /\ [][NextCron]_vars

\* --------------------------------------------- CacheService: LRU eviction
\* In this specification cache is the Map itself: its entries in insertion
\* order, each with its key, value, lastAccessed and expiresAt (0: no TTL).
\* The value a caller stores is named by the instant it was produced
\* (createdAt).
Entry(key, lastAccessed, expiresAt) ==
    [key |-> key, value |-> lastAccessed, lastAccessed |-> lastAccessed,
     expiresAt |-> expiresAt]

Keys(m) == {m[i].key : i \in 1..Len(m)}
IndexOf(m, key) == CHOOSE i \in 1..Len(m) : m[i].key = key
At(m, key) == m[IndexOf(m, key)]

\* Map.delete
mapDelete(m, key) ==
    LET Other(e) == e.key # key IN SelectSeq(m, Other)

\* Map.set: an existing key keeps its place, a new one goes last
mapSet(m, e) ==
    IF e.key \in Keys(m) THEN [m EXCEPT ![IndexOf(m, e.key)] = e] ELSE Append(m, e)

evictLRU_FirstInserted(m) == SubSeq(m, Len(m) \div 10 + 1, Len(m))

\* CacheService.evictLRU: the entries sorted by lastAccessed (the sort is
\* stable: equal times stay in insertion order), the first
\* Math.floor(length * 0.1) of them deleted
evictLRU(m) ==
    LET Before(i, j) ==
            \/ m[i].lastAccessed < m[j].lastAccessed
            \/ m[i].lastAccessed = m[j].lastAccessed /\ i < j
        toRemove == Len(m) \div 10
        removed == {m[i].key : i \in {i \in 1..Len(m) :
                        Cardinality({j \in 1..Len(m) : Before(j, i)}) < toRemove}}
        Kept(e) == e.key \notin removed
    IN SelectSeq(m, Kept)

\* CacheService.set(key, value, ttlMs) at instant t
set(m, key, ttlMs, t) ==
    LET entry == Entry(key, t, IF ttlMs # 0 THEN t + ttlMs ELSE 0)
        stored == mapSet(m, entry)
    IN IF Len(stored) > MaxCacheSize THEN evictLRU(stored) ELSE stored

\* A TTL timer: setTimeout(() => this.delete(key), ttlMs), due at due. The
\* timer state T is the Map ttlTimers (key -> timer, as a set of timers with
\* one per key) and the timeouts armed and not cleared in the event loop.
Timer(key, due) == [key |-> key, due |-> due]
TimerState(map, armed) == [ttlTimers |-> map, timeouts |-> armed]

clearTimer_Forget(T, key) ==
    TimerState({x \in T.ttlTimers : x.key # key}, T.timeouts)

\* if (this.ttlTimers.has(key)) { clearTimeout(this.ttlTimers.get(key));
\* this.ttlTimers.delete(key) }
clearTimer(T, key) ==
    TimerState({x \in T.ttlTimers : x.key # key},
               T.timeouts \ {x \in T.ttlTimers : x.key = key})

\* const timer = setTimeout(..., ttlMs); this.ttlTimers.set(key, timer)
armTimer(T, key, due) ==
    TimerState({x \in T.ttlTimers : x.key # key} \cup {Timer(key, due)},
               T.timeouts \cup {Timer(key, due)})

RECURSIVE clearTimers(_, _)
clearTimers(T, keys) ==
    IF keys = {} THEN T
    ELSE LET k == CHOOSE x \in keys : TRUE
         IN clearTimers(clearTimer(T, k), keys \ {k})

\* CacheService.set(key, value, ttlMs) at instant t: the timers after it (the
\* key's timer cleared, a new one armed when ttlMs is given, and evictLRU's
\* delete of every entry it removes)
setTimers(T, m, key, ttlMs, t) ==
    LET cleared == clearTimer(T, key)
        stored == mapSet(m, Entry(key, t, IF ttlMs # 0 THEN t + ttlMs ELSE 0))
        armed == IF ttlMs # 0 THEN armTimer(cleared, key, t + ttlMs) ELSE cleared
    IN IF Len(stored) > MaxCacheSize
       THEN clearTimers(armed, Keys(stored) \ Keys(evictLRU(stored)))
       ELSE armed

\* Whether CacheService.get(key) at instant t is a hit
Hit(m, key, t) ==
    /\ key \in Keys(m)
    /\ ~(At(m, key).expiresAt # 0 /\ t > At(m, key).expiresAt)

\* CacheService.get(key) at instant t: the Map after it
get(m, key, t) ==
    IF key \notin Keys(m) THEN m
    ELSE IF Hit(m, key, t) THEN [m EXCEPT ![IndexOf(m, key)].lastAccessed = t]
    ELSE mapDelete(m, key)

\* CacheService.get(key) at instant t: the timers after it (an expired entry
\* is removed through delete)
getTimers(T, m, key, t) ==
    IF key \in Keys(m) /\ ~Hit(m, key, t) THEN clearTimer(T, key) ELSE T

\* CacheService.get(key) at instant t: the value returned
getValue(m, key, t) == IF Hit(m, key, t) THEN At(m, key).value ELSE Null

\* The keys the callers use: those read and set again, the one set with a
\* TTL (of one millisecond), and any key not in the Map yet.
CacheKeySet == 1..(MaxCacheSize + 1)
HotKeys == {1, 2}
TtlKeys == {2}
TtlMs == 1
NewKey(m) == CHOOSE k \in CacheKeySet \ Keys(m) : \A j \in CacheKeySet \ Keys(m) : k <= j

CacheCall(op, key) == [kind |-> "cache", op |-> op, key |-> key]
\* What a get returned (Null: null), and whether it counted a miss
GetReturned(key, value, miss) ==
    [kind |-> "cache", op |-> "get", key |-> key, value |-> value, miss |-> miss]
\* A TTL timer's callback has run
Fired(timer) == [kind |-> "cache", op |-> "fired", key |-> timer.key, due |-> timer.due]

CacheVars == <<storeVars, schedVars, httpVars, nFailures, lifeVars, nOutOfBand, liveTimers, clients>>

\* cacheService.set(key, value, ttlMs)
CacheSet(k, ttlMs) ==
    LET T == setTimers(TimerState(ttlTimers, timeouts), cache, k, ttlMs, now)
    IN /\ cache' = set(cache, k, ttlMs, now)
       /\ ttlTimers' = T.ttlTimers
       /\ timeouts' = T.timeouts
       /\ output' = CacheCall("set", k)
       /\ UNCHANGED <<now, CacheVars>>

\* cacheService.get(key)
CacheGet(k) ==
    LET T == getTimers(TimerState(ttlTimers, timeouts), cache, k, now)
    IN /\ cache' = get(cache, k, now)
       /\ ttlTimers' = T.ttlTimers
       /\ timeouts' = T.timeouts
       /\ output' = GetReturned(k, getValue(cache, k, now), ~Hit(cache, k, now))
       /\ UNCHANGED <<now, CacheVars>>

\* An armed TTL timer fires once it is due: this.delete(key)
CacheExpire(timer) ==
    LET T == clearTimer(TimerState(ttlTimers, timeouts \ {timer}), timer.key)
    IN /\ now >= timer.due
       /\ cache' = mapDelete(cache, timer.key)
       /\ ttlTimers' = T.ttlTimers
       /\ timeouts' = T.timeouts
       /\ output' = Fired(timer)
       /\ UNCHANGED <<now, CacheVars>>

\* A millisecond passes.
CacheClock ==
    /\ now < MaxCacheMs
    /\ now' = now + 1
    /\ output' = NoOutput
    /\ UNCHANGED <<cache, CacheVars, ttlTimers, timeouts>>

NextLRU ==
    \/ \E k \in HotKeys : CacheSet(k, IF k \in TtlKeys THEN TtlMs ELSE 0)
    \/ Keys(cache) # CacheKeySet /\ CacheSet(NewKey(cache), 0)
    \/ \E k \in HotKeys : CacheGet(k)
    \/ \E timer \in timeouts : CacheExpire(timer)
    \/ CacheClock

\* The cache service is constructed: the Map is empty.
InitLRU ==
    /\ now = 0
    /\ jobs = [j \in JobIds |-> NoJob]
    /\ nextJobId = 1
    /\ executions = {}
    /\ nextExecId = 1
    /\ activeTasks = [j \in JobIds |-> NoTask]
    /\ executionQueue = {}
    /\ stats = [totalExecutions |-> 0, successfulExecutions |-> 0, failedExecutions |-> 0]
    /\ invocations = {}
    /\ nStarted = 0
    /\ requests = {}
    /\ immediates = <<>>
    /\ output = NoOutput
    /\ nHttp = 0
    /\ nFailures = 0
    /\ isRunning = FALSE
    /\ syncInterval = 0
    /\ tickers = {}
    /\ passes = {}
    /\ stopping = {}
    /\ nLifecycle = [starts |-> 0, stops |-> 0]
    /\ nOutOfBand = 0
    /\ InitEdge
    /\ liveTimers = [j \in JobIds |-> 0]
    /\ cache = <<>>

\* The cache service under get, set, TTL timers and the clock.
SpecLRU == InitLRU /\ [][NextLRU]_vars

\* ------------------------------------------- Job and JobRepository: fields
\* A field a caller did not send, or a property an object does not have
Absent == 0 - 1
\* JavaScript a || b on numbers and undefined
Or(a, b) == IF a # Absent /\ a # 0 THEN a ELSE b

DefaultMaxRetries == 3
MaxMaxRetries == 10

\* Job constructor: this.maxRetries
JobMaxRetries(max_retries, maxRetries) == Or(Or(max_retries, maxRetries), DefaultMaxRetries)

\* Job.validate: the maxRetries rule
maxRetriesValid(v) == ~(v # Absent /\ v # 0 /\ (v < 0 \/ v > MaxMaxRetries))

\* What a caller sends as maxRetries (the validators' range, or nothing), and
\* the max_retries of a row the repository wrote
MaxRetriesInputs == (0..MaxMaxRetries) \cup {Absent}
MaxRetriesRows == {JobMaxRetries(Absent, v) : v \in MaxRetriesInputs}

\* What create or update did: the row's max_retries before (Absent: no row),
\* the maxRetries sent, the max_retries persisted and the maxRetries returned
Stored(op, before, maxRetries, persisted, returned) ==
    [kind |-> "return", op |-> op, before |-> before, maxRetries |-> maxRetries,
     persisted |-> persisted, returned |-> returned]

\* JobRepository.create(jobData): new Job(jobData), toDatabase, INSERT ...
\* RETURNING *, new Job(row)
RepositoryCreate(v) ==
    LET job == JobMaxRetries(Absent, v)
        row == job
    IN /\ maxRetriesValid(job)
       /\ output' = Stored("create", Absent, v, row, JobMaxRetries(row, Absent))
       /\ UNCHANGED <<now, storeVars, schedVars, httpVars, nFailures, extVars>>

\* JobRepository.update(id, updateData) of a row whose max_retries is w:
\* findById, new Job({...existingJob, ...updateData}), toDatabase, UPDATE ...
\* RETURNING *, new Job(row)
RepositoryUpdate(w, v) ==
    LET existingJob == JobMaxRetries(w, Absent)
        updatedJob == JobMaxRetries(Absent, IF v # Absent THEN v ELSE existingJob)
        row == updatedJob
    IN /\ maxRetriesValid(updatedJob)
       /\ output' = Stored("update", w, v, row, JobMaxRetries(row, Absent))
       /\ UNCHANGED <<now, storeVars, schedVars, httpVars, nFailures, extVars>>

NextJob ==
    \/ \E v \in MaxRetriesInputs : RepositoryCreate(v)
    \/ \E w \in MaxRetriesRows, v \in MaxRetriesInputs : RepositoryUpdate(w, v)

\* The repository's create and update applied to every maxRetries.
SpecJob == Init /\ [][NextJob]_vars

\* ------------------------------------------------------------ rate limiting
windowMs == 60000
GeneralMax == 100
StrictMax == 20
TooManyRequests == 429

\* new RateLimiter(60000, 100) and new RateLimiter(60000, 20)
LimiterMax(limiter) == IF limiter = "strict" THEN StrictMax ELSE GeneralMax

\* The limiters a request passes, in the order of the app.use mounts:
\* "/api/jobs/:id/trigger" strictRateLimit, "/api/jobs" generalRateLimit,
\* "/api" generalRateLimit
Mounts(path) ==
    IF path = "trigger" THEN <<"strict", "general", "general">>
    ELSE <<"general", "general">>

\* RateLimiter.middleware: requests.filter(timestamp > windowStart)
recentRequests(timestamps, t) ==
    LET Recent(ts) == ts > t - windowMs IN SelectSeq(timestamps, Recent)

\* RateLimiter.middleware at instant t on the client's timestamps: whether it
\* calls next(), and the timestamps it leaves
middleware(limiter, timestamps, t) ==
    LET recent == recentRequests(timestamps, t)
    IN IF Len(recent) >= LimiterMax(limiter)
       THEN [next |-> FALSE, timestamps |-> recent]
       ELSE [next |-> TRUE, timestamps |-> Append(recent, t)]

\* The request passes the limiters of mounts from the i-th on, until one
\* answers 429.
RECURSIVE PassMounts(_, _, _, _)
PassMounts(mounts, i, cl, t) ==
    IF i > Len(mounts) THEN [next |-> TRUE, clients |-> cl]
    ELSE LET m == middleware(mounts[i], cl[mounts[i]], t)
             after == [cl EXCEPT ![mounts[i]] = m.timestamps]
         IN IF m.next THEN PassMounts(mounts, i + 1, after, t)
            ELSE [next |-> FALSE, clients |-> after]

\* What the limiters did with a request: handed on to the routes (status 0),
\* or answered 429
Limited(path, status) == [kind |-> "limited", op |-> path, job |-> 0, status |-> status]

\* A request the limiters handed on to the routes: the n-th to its path at
\* instant t
Admitted(path, n, t) == [op |-> path, n |-> n, at |-> t]
NthAt(path, t) == Cardinality({r \in requests : r.op = path /\ r.at = t}) + 1

RateVars == <<storeVars, schedVars, immediates, nHttp, nFailures, lifeVars, nOutOfBand,
              cache, liveTimers, ttlTimers, timeouts>>

\* A request of the client to an /api/jobs endpoint ("jobs") or to
\* /api/jobs/:id/trigger ("trigger") reaches the limiters.
RateRequest(path) ==
    LET passed == PassMounts(Mounts(path), 1, clients, now)
    IN /\ clients' = passed.clients
       /\ IF passed.next
          THEN /\ requests' = requests \cup {Admitted(path, NthAt(path, now), now)}
               /\ output' = Limited(path, 0)
          ELSE /\ UNCHANGED requests
               /\ output' = Limited(path, TooManyRequests)
       /\ UNCHANGED <<now, RateVars>>

\* RateLimiter.cleanup of both limiters, every minute
RateCleanup ==
    /\ now > 0
    /\ now % 60000 = 0
    /\ clients' = [l \in DOMAIN clients |-> recentRequests(clients[l], now)]
    /\ clients' # clients
    /\ output' = NoOutput
    /\ UNCHANGED <<now, requests, RateVars>>

\* A window's length passes; the requests admitted before it have been
\* answered (requestTimeout(30000) at the latest).
RateClock ==
    /\ now < MaxRateWindows * windowMs
    /\ now' = now + windowMs
    /\ requests' = {r \in requests : r.at > now' - windowMs}
    /\ output' = NoOutput
    /\ UNCHANGED <<clients, RateVars>>

NextRate ==
    \/ \E path \in {"jobs", "trigger"} : RateRequest(path)
    \/ RateCleanup
    \/ RateClock

\* The application's limiters under the requests of one client.
SpecRate == Init /\ [][NextRate]_vars

\* ------------------------------------------------------------- GET /health
Ok == 200
ServiceUnavailable == 503

\* The URL paths that app.get("/health") matches (routing is not strict)
HealthPaths == {"/health", "/health/"}

\* The healthCheck middleware, mounted before the routes: whether it answers
\* the request itself
healthCheck(path) == path = "/health" \/ path = "/api/health"

\* The handler of app.get("/health") after db.healthCheck(): the status it
\* sets
healthRoute(healthy, running) == IF ~healthy \/ ~running THEN ServiceUnavailable ELSE Ok

\* The answer to GET path while the store's health check gives healthy
Health(path, healthy, status) ==
    [kind |-> "health", op |-> path, job |-> 0, status |-> status, healthy |-> healthy]

\* GET path through the middleware chain: the healthCheck middleware, then the
\* route.
GetHealth(path, healthy) ==
    /\ output' = Health(path, healthy,
                        IF healthCheck(path) THEN Ok ELSE healthRoute(healthy, isRunning))
    /\ UNCHANGED <<now, storeVars, schedVars, httpVars, nFailures, extVars>>

NextHealth ==
    \/ \E ok \in BOOLEAN : StartCall(ok)
    \/ \E p \in passes : StartContinue(p)
    \/ StopCall
    \/ \E s \in stopping : StopReturn(s)
    \/ \E path \in HealthPaths, healthy \in BOOLEAN : GetHealth(path, healthy)

\* GET /health while the scheduler is started and stopped.
SpecHealth == InitSync /\ [][NextHealth]_vars

\* ---------------------------------------------------------- request timeout
RequestTimeoutMs == 30000
RequestTimeoutStatus == 408

\* The store is slow: 30 s pass while handlers are suspended at an await, and
\* the timer of requestTimeout(30000) of each fires: res.headersSent is false,
\* so it sends 408. The handlers stay suspended; nothing cancels them.
RequestTimeout ==
    /\ requests # {}
    /\ \A r \in requests : ~TimedOut(r)
    /\ now < MaxTicks * TickMs
    /\ \A j \in JobIds : ~Due(j)
    /\ immediates = <<>>
    /\ \A t \in tickers : t.last = now
    /\ passes = {}
    /\ \A s \in stopping : now - s.startTime < WaitTimeoutMs /\ executionQueue # {}
    /\ now' = now + RequestTimeoutMs
    /\ requests' = {r @@ [timedOut |-> TRUE] : r \in requests}
    /\ output' = Response("timeout", 0, RequestTimeoutStatus)
    /\ UNCHANGED <<storeVars, schedVars, immediates, nHttp, nFailures>>
    /\ UNCHANGED extVars

NextTimeout ==
    \/ Tick
    \/ \E j \in JobIds : TimerFire(j)
    \/ ExecuteJobStep
    \/ \E id \in JobIds, patch \in PatchSet, ok \in BOOLEAN : UpdateJobRead(id, patch, ok)
    \/ \E r \in requests, ok \in BOOLEAN : UpdateJobWrite(r, ok)
    \/ \E r \in requests : UpdateJobRespond(r)
    \/ \E id \in JobIds, ok \in BOOLEAN : DeleteJobRow(id, ok)
    \/ \E r \in requests : DeleteJobRespond(r)
    \/ RequestTimeout

\* The mutating handlers on a store that may be slow, under requestTimeout.
SpecTimeout == InitFrame /\ [][NextTimeout]_vars

\* ------------------------------------------------ executions under fairness
\* Jobs are created and deleted over HTTP, their timers fire and their
\* executions run.
NextLive ==
    \/ Tick
    \/ \E j \in JobIds : TimerFire(j)
    \/ ExecuteJobStep
    \/ \E input \in JobInputs, ok \in BOOLEAN : CreateJobInsert(input, ok)
    \/ \E r \in requests : CreateJobRespond(r)
    \/ \E id \in JobIds, ok \in BOOLEAN : DeleteJobRow(id, ok)
    \/ \E r \in requests : DeleteJobRespond(r)

\* Time passes; the event loop runs every timer that is due and every
\* continuation that is ready; every store call returns or fails.
Fairness ==
    /\ WF_vars(Tick)
    /\ WF_vars(\E j \in JobIds : TimerFire(j))
    /\ WF_vars(ExecuteJobStep)
    /\ WF_vars(\E r \in requests : CreateJobRespond(r))
    /\ WF_vars(\E r \in requests : DeleteJobRespond(r))

SpecLive == Init /\ [][NextLive]_vars /\ Fairness

\* ------------------------------------------------------------------ claims
InFlight(j) == {i \in invocations : i.job = j}
Rows(j) == {e \in executions : e.jobId = j}
Terminal(e) == e.status # "running"

\* A timer firing or a trigger's callback for job j arrives in this step.
Arrives(j) ==
    \/ /\ Due(j)
       /\ activeTasks'[j] = [activeTasks[j] EXCEPT !.last = now]
    \/ /\ immediates # <<>>
       /\ Head(immediates).id = j
       /\ immediates' = Tail(immediates)

\* POST /jobs/:id/trigger is answered in this step.
TriggerAnswered(id) ==
    /\ nHttp' = nHttp + 1
    /\ output'.kind = "response" /\ output'.op = "trigger" /\ output'.job = id

C1_AtMostOne ==
    \A j \in JobIds :
        /\ Cardinality(InFlight(j)) <= 1
        /\ (j \in executionQueue) <=> (InFlight(j) # {})

C1_Frame ==
    \A j \in JobIds :
        /\ (j \in executionQueue /\ Arrives(j)) =>
              UNCHANGED <<executions, jobs, stats, executionQueue, invocations, nStarted>>
        /\ (j \in executionQueue /\ jobs[j] # NoJob /\ TriggerAnswered(j) /\ nFailures' = nFailures) =>
              /\ output'.status = 200
              /\ UNCHANGED <<executions, jobs, stats, executionQueue, invocations, nStarted>>

\* C1: single-flight. Under every interleaving of timer firings and manual
\* triggers at most one execution of a job is in flight, and it is the one in
\* executionQueue; a firing or trigger that arrives while the job is in
\* executionQueue creates no execution row, changes no counters and leaves
\* executionQueue unchanged, and the trigger request is still answered 200.
C1_SingleFlight == [][C1_AtMostOne' /\ C1_Frame]_vars

\* A firing or trigger was skipped while an execution of the job was in flight.
C1_Witness ==
    \E j \in JobIds :
        /\ output = SkipLog(j)
        /\ j \in executionQueue
        /\ Cardinality(InFlight(j)) = 1

\* C2: P1 on durable rows. For any two rows e1, e2 of one job with
\* e1.started_at <= e2.started_at, e1 is no longer running and
\* e2.started_at >= e1.completed_at.
C2_DurableSingleFlight ==
    \A e1 \in executions, e2 \in executions :
        (e1.id # e2.id /\ e1.jobId = e2.jobId /\ e1.startedAt <= e2.startedAt) =>
            /\ Terminal(e1)
            /\ e2.startedAt >= e1.completedAt

\* C3: an execution that fails by the executor's deadline is recorded on its
\* row with status timeout.
C3_TimeoutStatus ==
    \A e \in executions : e.errorMessage = "timeout" => e.status = "timeout"

\* C4: terminal status is final. Once a row's status has left running, no
\* later step changes that row's status.
C4_TerminalIsFinal ==
    [][\A e \in executions : Terminal(e) =>
          \A f \in executions' : f.id = e.id => f.status = e.status]_vars

\* C5: error containment. executeJob never rejects to its caller, and a row
\* that was created does not stay running once its executeJob has settled.
C5_ErrorContainment ==
    /\ output.kind # "reject"
    /\ \A e \in executions :
          e.status = "running" => \E i \in invocations : i.executionId = e.id

\* C6: one durable row per execution. For every job with no execution in
\* flight, the number of its rows that reached a terminal status equals its
\* total_runs.
C6_OneRowPerExecution ==
    \A j \in JobIds :
        (jobs[j] # NoJob /\ InFlight(j) = {}) =>
            Cardinality({e \in Rows(j) : Terminal(e)}) = jobs[j].totalRuns

\* C7: bookkeeping in all cases. Every executeJob call that passed the guard
\* and has settled incremented the in-memory total and exactly one of
\* successful/failed, and left executionQueue.
C7_Bookkeeping ==
    /\ stats.totalExecutions = nStarted - Cardinality(invocations)
    /\ stats.totalExecutions = stats.successfulExecutions + stats.failedExecutions
    /\ \A j \in executionQueue : InFlight(j) # {}

\* C8 as stated: once some execution of a job is terminal, total_runs =
\* successful_runs + failed_runs + the number of its executions in flight.
C8_CountersWithInFlight ==
    \A j \in JobIds :
        (jobs[j] # NoJob /\ jobs[j].totalRuns >= 1) =>
            jobs[j].totalRuns =
                jobs[j].successfulRuns + jobs[j].failedRuns + Cardinality(InFlight(j))

\* C8, amended: in every state total_runs = successful_runs + failed_runs;
\* an execution in flight is counted only when it terminates.
C8_CounterCoherence ==
    \A j \in JobIds :
        jobs[j] # NoJob =>
            jobs[j].totalRuns = jobs[j].successfulRuns + jobs[j].failedRuns

\* A job that has failed and succeeded before has an execution in flight.
C8_Witness ==
    \E j \in JobIds :
        /\ jobs[j] # NoJob
        /\ jobs[j].failedRuns >= 1
        /\ jobs[j].totalRuns >= 1
        /\ InFlight(j) # {}

\* C9: next_run_at is recomputed to nextAfter(cron, now) by the step in which
\* an execution settles, whatever its outcome, and by an update that changes
\* cron_expression.
C9_NextRunRecomputed ==
    [][/\ \A i \in invocations :
            (i \notin invocations' /\ jobs[i.job] # NoJob /\ nFailures' = nFailures) =>
                jobs'[i.job].nextRunAt = calculateNextRunTime(jobs[i.job].cron, now)
       /\ \A r \in requests :
            (r.op = "update" /\ r.pc = "write" /\ jobs[r.id] # NoJob /\ nFailures' = nFailures
             /\ r \notin requests' /\ jobs'[r.id].cron # jobs[r.id].cron) =>
                jobs'[r.id].nextRunAt = calculateNextRunTime(jobs'[r.id].cron, now)]_vars

\* C10: P3. For every active job with a valid cron, next_run_at > now, except
\* from the instant its timer is due until the execution then started settles.
C10_NextRunInFuture ==
    \A j \in JobIds :
        (/\ jobs[j] # NoJob
         /\ jobs[j].isActive
         /\ cronValidate(jobs[j].cron)
         /\ ~Due(j)
         /\ j \notin executionQueue) =>
            jobs[j].nextRunAt > now

\* The job is in the store, active, with a cron the timer library accepts.
Schedulable(j) == jobs[j] # NoJob /\ jobs[j].isActive /\ cronValidate(jobs[j].cron)

\* The job has a timer exactly when it is schedulable, and the timer holds
\* the job's stored values.
TimerAgrees(j) ==
    /\ (activeTasks[j] # NoTask) <=> Schedulable(j)
    /\ Schedulable(j) => activeTasks[j].job = JobOf(j, jobs[j])

\* C11: deactivation and deletion unschedule. When the store is written by
\* the handlers only and no handler for the job is in flight, a job that is
\* inactive or deleted has no timer (so no firing starts an execution of it),
\* whatever start and sync passes ran concurrently with the handler.
C11_DeactivationUnschedules ==
    \A j \in JobIds :
        (/\ nOutOfBand = 0
         /\ \A r \in requests : r.id # j
         /\ (jobs[j] = NoJob \/ ~jobs[j].isActive)) =>
            activeTasks[j] = NoTask

\* C12: control-plane/scheduler agreement. When every POST, PUT and DELETE
\* handler has completed, each job has a timer if and only if it is in the
\* store, active, with a valid cron, and the timer holds the values of the
\* last committed write.
C12_ControlPlaneAgreement ==
    requests = {} => \A j \in JobIds : TimerAgrees(j)

\* What PUT writes of a job: its cron expression, is_active and timeout.
Config(x) == <<x.cron, x.isActive, x.timeoutMs>>

\* No PUT or DELETE of job j is in flight.
NoWriteInFlight(j) == \A q \in requests : ~(q.id = j /\ q.op \in {"update", "delete"})

\* The handlers that start in this step, as they stand at their first await.
Received == IF nHttp' = nHttp + 1 THEN requests' \ requests ELSE {}

\* C13: read-your-writes. A GET /jobs/:j received when every PUT and DELETE
\* of j has responded works on (and returns) the job as the store holds it:
\* the written fields, or nothing (404) after a delete, whatever GET requests
\* were in flight during the write.
C13_ReadYourWrites ==
    [][\A r \in Received :
          (r.op = "get" /\ NoWriteInFlight(r.id)) =>
              IF jobs[r.id] = NoJob THEN r.result = NoJob
              ELSE r.result # NoJob /\ Config(r.result) = Config(jobs[r.id])]_vars

\* C14: fresh overlay on list reads. The response of GET /jobs carries, for
\* every active job of the page, the lastRunAt, nextRunAt and counters the
\* store holds when the handler re-reads the job, also when the page came from
\* the cache.
C14_FreshOverlay ==
    [][\A r \in requests :
          (/\ r.op = "list" /\ r.pc = "overlay"
           /\ r \notin requests'
           /\ output'.kind = "response" /\ output'.op = "list" /\ output'.status = 200) =>
              \A j \in JobIds :
                  (r.result.jobs[j] # NoJob /\ r.result.jobs[j].isActive /\ jobs[j] # NoJob) =>
                      /\ output'.data[j].lastRunAt = jobs[j].lastRunAt
                      /\ output'.data[j].nextRunAt = jobs[j].nextRunAt
                      /\ output'.data[j].statistics.totalRuns = jobs[j].totalRuns
                      /\ output'.data[j].statistics.successfulRuns = jobs[j].successfulRuns
                      /\ output'.data[j].statistics.failedRuns = jobs[j].failedRuns]_vars

C16_CascadeDelete ==
    \A e \in executions : jobs[e.jobId] # NoJob

\* A job was deleted while its execution, whose row had been created, was in
\* flight.
C16_Witness ==
    \E i \in invocations :
        /\ jobs[i.job] = NoJob
        /\ i.executionId # NoExec
        /\ executions = {}

\* C17: start() is idempotent. A call of start() while the scheduler is
\* running, also while an earlier call is still loading jobs, leaves the
\* timers, the running executions, the statistics, the calls in flight and the
\* sync ticker unchanged; as long as stop() was never called there is at most
\* one sync ticker, and exactly one once start() has returned.
C17_OneTicker ==
    nLifecycle.stops = 0 =>
        /\ Cardinality(tickers) <= 1
        /\ (isRunning /\ passes = {}) => Cardinality(tickers) = 1

C17_StartIdempotent ==
    [][/\ (isRunning /\ nLifecycle'.starts = nLifecycle.starts + 1) =>
             UNCHANGED <<activeTasks, executionQueue, stats, tickers, syncInterval,
                         passes, isRunning>>
       /\ C17_OneTicker']_vars

\* A second call of start() returned while the first was still loading jobs.
C17_Witness ==
    /\ output = Done("start")
    /\ nLifecycle.starts = 2
    /\ nLifecycle.stops = 0
    /\ \E p \in passes : p.kind = "start"

\* The step is the second half of sync pass p.
SyncApplied(p) ==
    /\ p.kind = "sync"
    /\ passes' = passes \ {p}
    /\ output' = Done("syncJobs")

\* C18: when stop() returns the sync ticker is cancelled and no timer is
\* left, and a sync pass that was awaiting its store read when stop() was
\* called installs no timer afterwards.
C18_StopIsFinal ==
    [][/\ (stopping' # stopping /\ output' = Done("stop")) =>
             /\ tickers' = {}
             /\ \A j \in JobIds : activeTasks'[j] = NoTask
       /\ \A p \in passes :
             (SyncApplied(p) /\ p.stale) =>
                 \A j \in JobIds : activeTasks[j] = NoTask => activeTasks'[j] = NoTask]_vars

\* Sync pass p of the running scheduler completes while no handler is in
\* flight and the store is as the pass read it.
SyncQuiescent(p) ==
    /\ SyncApplied(p)
    /\ isRunning
    /\ requests = {}
    /\ p.result = findAll(jobs, Only(TRUE))

\* C19: sync convergence. With the store unchanged the sync passes reach, in
\* finitely many passes, timers for exactly the schedulable jobs, each holding
\* the job's stored values: a pass of the running scheduler that finds nothing
\* left to change leaves the timers in agreement with the store.
C19_SyncConverges ==
    [][\A p \in passes :
          (SyncQuiescent(p) /\ activeTasks' = activeTasks) =>
              \A j \in JobIds : TimerAgrees(j)']_vars

Scheduled == {j \in JobIds : activeTasks[j] # NoTask}

C22_OneTimerPerJob ==
    \A j \in JobIds : liveTimers[j] = IF activeTasks[j] # NoTask THEN 1 ELSE 0

\* stop() has destroyed the timer start() installed for an active job: start
\* has returned, no request and no out-of-band write was made, stop is waiting.
C22_Witness ==
    /\ stopping # {}
    /\ passes = {}
    /\ nLifecycle.starts = 1
    /\ nHttp = MaxHttp - 1
    /\ nOutOfBand = 0
    /\ \E j \in JobIds : Schedulable(j) /\ activeTasks[j] = NoTask /\ liveTimers[j] = 0

\* The step runs scheduleJob or unscheduleJob (the second half of a POST, PUT
\* or DELETE handler), the second half of start() or of a sync pass, or the
\* first half of stop().
SchedulerActs ==
    \/ \E j \in JobIds :
          output' \in {Response("create", j, 201), Response("update", j, 200),
                       Response("delete", j, 200)}
    \/ output' \in {Done("start"), Done("syncJobs")}
    \/ nLifecycle'.stops # nLifecycle.stops

\* executeJob call inv returns or rejects in this step.
Settles(inv) == \A i \in invocations' : i.n # inv.n

\* C21: in-flight executions are not disturbed. A step of scheduleJob,
\* unscheduleJob, start, stop or a sync pass leaves executionQueue, the
\* executeJob calls in flight and the rows of job_executions as they are, and
\* an execution in flight at such a step runs on: when it ends its row, if the
\* job was not deleted, is terminal.
C21_InFlightUndisturbed ==
    [][/\ SchedulerActs => UNCHANGED <<executionQueue, invocations, executions>>
       /\ \A inv \in invocations :
             Settles(inv) =>
                 \A e \in executions' : e.id = inv.executionId => Terminal(e)]_vars

\* A PUT has deactivated and unscheduled a job while an execution of it is in
\* flight with its row running.
C21_Witness ==
    \E inv \in invocations :
        /\ output = Response("update", inv.job, 200)
        /\ jobs[inv.job] # NoJob /\ ~jobs[inv.job].isActive
        /\ activeTasks[inv.job] = NoTask
        /\ inv.job \in executionQueue
        /\ \E e \in executions : e.id = inv.executionId /\ ~Terminal(e)

\* C23: after JobRepository.create succeeds the row's next_run_at is
\* calculateNextRunTime(cron_expression, now) of the creation instant, and
\* likewise after an update that changes cron_expression.
C23_CreatePersistsNextRun ==
    [][\A j \in JobIds :
          (/\ jobs'[j] # NoJob
           /\ (jobs[j] = NoJob \/ jobs[j].cron # jobs'[j].cron)) =>
              jobs'[j].nextRunAt = calculateNextRunTime(jobs'[j].cron, now)]_vars

\* calculateNextRunTime has returned for one of the expressions cs.
ReturnedFor(cs) ==
    /\ output.kind = "return"
    /\ output.op = "calculateNextRunTime"
    /\ output.expr \in cs

\* C24: for every accepted expression and base instant calculateNextRunTime
\* returns a defined instant strictly after the base instant, with seconds
\* zero, and applying it to its result gives a strictly later instant.
C24_NextRunStrictlyLater ==
    ReturnedFor(CronExprs) =>
        /\ cronValidate(output.expr)
        /\ output.value # InvalidDate
        /\ output.value > output.from
        /\ output.value % MinuteMs = 0
        /\ calculateNextRunTimeIn(output.tz, output.expr, output.value) > output.value

\* The IST wall-clock instants of the hour of t and of the next hour at a
\* minute in ms, back in UTC.
HourCandidates(t, ms) ==
    {((t + istOffset) \div HourMs + d) * HourMs + m * MinuteMs - istOffset :
        d \in {0, 1}, m \in ms}

\* The IST wall-clock instants h:m of the day of t, the day before and the
\* day after, back in UTC.
DayCandidates(t, h, m) ==
    {((t + istOffset) \div DayMs + d) * DayMs + h * HourMs + m * MinuteMs - istOffset :
        d \in {-1, 0, 1}}

\* The smallest of the candidates strictly after t.
Soonest(t, candidates) ==
    CHOOSE x \in candidates : x > t /\ \A y \in candidates : y > t => x <= y

\* C25: for "*/N * * * *", N in 1..59, the result is the smallest instant
\* strictly after the base instant whose IST minute of the hour is a multiple
\* of N, with seconds zero.
C25_ExactStep ==
    ReturnedFor(StepExprs) =>
        output.value =
            Soonest(output.from,
                    HourCandidates(output.from,
                                   {m \in 0..59 : m % output.expr.minute.n = 0}))

\* C26: for "* * * * *", "M * * * *" and "M H * * *" the result is the
\* smallest instant strictly after the base instant at which the IST wall
\* clock matches the expression (next minute, next hh:M, next H:M), with
\* seconds zero.
C26_ExactFixedTime ==
    /\ ReturnedFor({EveryMinute}) =>
          output.value = output.from - (output.from % MinuteMs) + MinuteMs
    /\ ReturnedFor(MinuteExprs) =>
          output.value = Soonest(output.from,
                                 HourCandidates(output.from, {output.expr.minute.n}))
    /\ ReturnedFor(DailyExprs) =>
          output.value = Soonest(output.from,
                                 DayCandidates(output.from, output.expr.hour.n,
                                               output.expr.minute.n))

\* Day of the week of an IST wall-clock instant (0 = Sunday); instant 0 is a
\* Thursday.
getDay(t) == (t \div DayMs + 4) % 7

\* C27: for "0 0 * * 1" the result is the next Monday 00:00 IST strictly
\* after the base instant, and for "0 0 1 * *" the next first of the month
\* 00:00 IST (1 February 1970 for the base instants of January 1970).
C27_DocumentedCadence ==
    /\ ReturnedFor({Weekly}) =>
          output.value =
              Soonest(output.from,
                      {x \in {((output.from + istOffset) \div DayMs + d) * DayMs - istOffset :
                                 d \in 1..7} : getDay(x + istOffset) = 1})
    /\ ReturnedFor({Monthly}) => output.value = 31 * DayMs - istOffset

\* C30: after every set the cache holds at most MaxCacheSize entries (the
\* source's 1000); when the set makes the size exceed it, floor(10%) of the
\* entries are evicted, none of them accessed later than an entry kept and
\* none the entry just set, and otherwise nothing is evicted; a get that hits
\* refreshes the entry's access time.
C30_BoundedLRU ==
    [][\A k \in CacheKeySet :
          /\ output' = CacheCall("set", k) =>
                LET before == Keys(cache) \cup {k}
                    after == Keys(cache')
                    evicted == before \ after
                    lastAccessed(x) == IF x = k THEN now ELSE At(cache, x).lastAccessed
                IN /\ Cardinality(after) <= MaxCacheSize
                   /\ after \subseteq before
                   /\ k \in after
                   /\ At(cache', k).lastAccessed = now
                   /\ \A x \in after \ {k} : At(cache', x) = At(cache, x)
                   /\ IF Cardinality(before) > MaxCacheSize
                      THEN /\ Cardinality(evicted) = Cardinality(before) \div 10
                           /\ \A e \in evicted, x \in after :
                                 lastAccessed(e) <= lastAccessed(x)
                      ELSE evicted = {}
          /\ (Hit(cache, k, now) /\ output' = GetReturned(k, At(cache, k).value, FALSE)) =>
                /\ Keys(cache') = Keys(cache)
                /\ At(cache', k).lastAccessed = now]_vars

\* A set has just evicted: the first key inserted was read later and is kept,
\* keys inserted after it are gone.
C30_Witness ==
    /\ output.kind = "cache" /\ output.op = "set"
    /\ Len(cache) = MaxCacheSize + 1 - (MaxCacheSize + 1) \div 10
    /\ 1 \in Keys(cache)
    /\ At(cache, 1).lastAccessed > 0
    /\ 3 \notin Keys(cache)

\* C28: a job created or updated through the repository with maxRetries = v,
\* v in 0..10, is persisted and returned with max_retries = v; the default 3
\* is applied only when the field is absent.
C28_MaxRetriesRoundTrip ==
    (output.kind = "return" /\ output.op \in {"create", "update"}) =>
        IF output.maxRetries # Absent
        THEN output.persisted = output.maxRetries /\ output.returned = output.maxRetries
        ELSE output.persisted =
                IF output.op = "create" THEN DefaultMaxRetries ELSE output.before

\* C29: every execution row leaves status running: a row is running only
\* while the executeJob call that created it is in flight and will write its
\* terminal status; a row whose call has settled (its terminating write
\* failed, or stop gave up waiting) is reconciled, never left running.
C29_NoOrphanRows ==
    \A e \in executions :
        e.status = "running" => \E inv \in invocations : inv.executionId = e.id

\* The requests of the client the limiters admitted within the window that
\* ends now, to the paths ps.
AdmittedInWindow(ps) == {r \in requests : r.op \in ps /\ r.at > now - windowMs}

\* C31: for one client IP, within any 60-second window up to 100 requests to
\* the /api/jobs endpoints are admitted and the next one is answered 429, and
\* up to 20 requests to /api/jobs/:id/trigger are admitted before 429; a
\* rejected request consumes no quota.
C31_RateLimits ==
    [][\A path \in {"jobs", "trigger"} :
          /\ output' = Limited(path, 0) =>
                /\ Cardinality(AdmittedInWindow({"jobs", "trigger"})) < GeneralMax
                /\ path = "trigger" => Cardinality(AdmittedInWindow({"trigger"})) < StrictMax
          /\ output' = Limited(path, TooManyRequests) =>
                /\ \/ Cardinality(AdmittedInWindow({"jobs", "trigger"})) >= GeneralMax
                   \/ path = "trigger" /\ Cardinality(AdmittedInWindow({"trigger"})) >= StrictMax
                /\ \A l \in DOMAIN clients :
                      clients'[l] = recentRequests(clients[l], now)]_vars

\* C32: GET /health, as routed through the middleware chain, answers 503
\* whenever the store health check fails or the scheduler is not running, and
\* 200 otherwise.
C32_HealthStatus ==
    (output.kind = "health" /\ output.op = "/health") =>
        output.status = IF ~output.healthy \/ ~isRunning THEN ServiceUnavailable ELSE Ok

\* C33: when a request has not been answered within 30 s the client receives
\* 408, and the timed-out handler performs no mutation of store, cache or
\* scheduler state after the 408 has been sent.
C33_TimeoutStopsHandler ==
    [][\A r \in requests :
          (TimedOut(r) /\ r \notin requests') =>
              UNCHANGED <<jobs, executions, cache, activeTasks, liveTimers>>]_vars

\* C34: stop() always terminates: it returns once executionQueue is empty or
\* when its 30 s grace period has expired with executions in flight, never
\* earlier and never waiting longer; returning, it does not touch the
\* executions in flight: their rows and their executionQueue entries stay as
\* they are.
C34_StopTerminates ==
    [][\A s \in stopping :
          /\ s \notin stopping' =>
                /\ executionQueue = {} \/ now - s.startTime >= WaitTimeoutMs
                /\ UNCHANGED <<executions, executionQueue, invocations>>
          /\ s \in stopping' => now' - s.startTime <= WaitTimeoutMs]_vars

\* The grace period of a stop() has expired while an execution is in flight
\* with its row running.
C34_Witness ==
    \E s \in stopping, inv \in invocations :
        /\ now - s.startTime >= WaitTimeoutMs
        /\ inv.job \in executionQueue
        /\ \E e \in executions : e.id = inv.executionId /\ e.status = "running"

\* C35: a get of an entry whose expiresAt has passed removes the entry, counts
\* a miss and returns null, as does a get of an absent key; any other get
\* returns the value of the latest set of the key and counts no miss; a set
\* stores its value with its own TTL; nothing but a set changes a cached
\* value; a TTL timer that fires removes only the entry of the set that armed
\* it; and every key with a TTL timer is a cached key.
C35_TtlHonoured ==
    [][/\ \A k \in CacheKeySet :
             /\ (output'.kind = "cache" /\ output'.op = "get" /\ output'.key = k) =>
                   IF k \in Keys(cache)
                      /\ (At(cache, k).expiresAt = 0 \/ now <= At(cache, k).expiresAt)
                   THEN /\ output'.value = At(cache, k).value
                        /\ ~output'.miss
                        /\ k \in Keys(cache')
                        /\ At(cache', k).value = At(cache, k).value
                   ELSE /\ output'.value = Null
                        /\ output'.miss
                        /\ k \notin Keys(cache')
             /\ output' = CacheCall("set", k) =>
                   /\ k \in Keys(cache')
                   /\ At(cache', k).value = now
                   /\ At(cache', k).expiresAt \in {0, now + TtlMs}
             /\ (k \in Keys(cache) /\ k \in Keys(cache') /\ output' # CacheCall("set", k)) =>
                   /\ At(cache', k).value = At(cache, k).value
                   /\ At(cache', k).expiresAt = At(cache, k).expiresAt
             /\ (output'.kind = "cache" /\ output'.op = "fired"
                 /\ k \in Keys(cache) /\ k \notin Keys(cache')) =>
                   /\ k = output'.key
                   /\ At(cache, k).expiresAt = output'.due
       /\ {x.key : x \in ttlTimers'} \subseteq Keys(cache')
       /\ {x.key : x \in timeouts'} \subseteq Keys(cache')]_vars

\* Key 2 was set with a TTL at 0 and again at 1 (it still precedes key 1,
\* inserted at 0, in the Map), and a get at 2, after the first TTL ran out,
\* returns the value set at 1.
C35_Witness ==
    /\ now = 2
    /\ Len(cache) >= 2
    /\ cache[1].key = 2 /\ cache[1].value = 1
    /\ cache[2].key = 1 /\ cache[2].value = 0
    /\ output = GetReturned(2, 1, FALSE)

\* C36: a sync pass that finishes leaves the timer of every job that is
\* active in the store and scheduled in activeTasks.
C36_SyncKeepsActiveJobs ==
    [][output' = Done("syncJobs") =>
          \A j \in JobIds :
              (jobs[j] # NoJob /\ jobs[j].isActive /\ activeTasks[j] # NoTask) =>
                  activeTasks'[j] # NoTask]_vars

\* C37: whenever isRunning is false, activeTasks holds no timer.
C37_StoppedHoldsNoTimer ==
    ~isRunning => \A j \in JobIds : activeTasks[j] = NoTask

\* The clock of the model stops at its horizon: an executor started at the
\* horizon waits for its timer for ever.
AtHorizon(j) ==
    /\ now = MaxTicks * TickMs
    /\ \E inv \in invocations : inv.job = j /\ inv.pc = "perform" /\ inv.performAt = now

\* C38: every execution that enters executionQueue leaves it (within the
\* horizon of the clock), whichever way its store calls and its executor end.
C38_ExecutionsLeaveRunning ==
    \A j \in JobIds : (j \in executionQueue) ~> (j \notin executionQueue \/ AtHorizon(j))

\* The first execution of a job ended in the catch block (its executor
\* reached its deadline) and left executionQueue; the job's timer fired again
\* and its second execution is running.
C38_Witness ==
    \E j \in JobIds, inv \in invocations, e \in executions :
        /\ j \in executionQueue
        /\ inv.job = j /\ inv.n = 2 /\ inv.pc = "perform"
        /\ e.jobId = j /\ e.status = "failed" /\ e.errorMessage = "timeout"

\* C39: the UPDATE of JobRepository.update writes the fields of its patch and
\* leaves the other fields as the store holds them when it runs: a patch
\* without cron_expression keeps the row's current cron_expression and
\* next_run_at, a patch without is_active keeps the row's current is_active.
C39_UpdateKeepsCurrentRow ==
    [][\A r \in requests :
          (/\ r.op = "update" /\ r.pc = "write"
           /\ r \notin requests'
           /\ \E w \in requests' : w.op = "update" /\ w.pc = "respond" /\ w.id = r.id
                                   /\ w.existing = r.existing /\ w.patch = r.patch
           /\ jobs[r.id] # NoJob) =>
              /\ r.patch.has # "cron" =>
                    /\ jobs'[r.id].cron = jobs[r.id].cron
                    /\ jobs'[r.id].nextRunAt = jobs[r.id].nextRunAt
              /\ r.patch.has # "isActive" =>
                    jobs'[r.id].isActive = jobs[r.id].isActive]_vars


====
